---- MODULE Spec2Model ----
(***************************************************************************)
(* Queue / scheduling / delivery core of the Facebook auto-poster          *)
(* (src/index.js).  The persisted queue.json is the variable store; every  *)
(* operation loads it whole, mutates a copy and writes it back whole.      *)
(*                                                                         *)
(* Encodings used throughout:                                              *)
(*  - instants are integers, milliseconds since the Unix epoch, as         *)
(*    Date.now() returns them.  An ISO-8601 string produced by             *)
(*    toISOString() is represented by the instant it denotes: the code     *)
(*    compares such strings with <=, and for four-digit years the          *)
(*    lexicographic order of the strings is the order of the instants.     *)
(*  - a JS string is a sequence of tokens, each token a run of characters  *)
(*    (text.includes('#now') is membership of the token "#now").           *)
(*  - a nullable / possibly undefined field is a sequence of length 0      *)
(*    (null, undefined) or 1 (the value).                                  *)
(***************************************************************************)
EXTENDS Integers, Sequences, FiniteSets, TLC

VARIABLES
    store,        \* queue.json: [pending, posted, lastPostTime, postedHashes]
    now,          \* the wall clock, ms since the epoch (what Date.now() reads)
    config,       \* config.json as loadConfig() returns it
    localOffset,  \* UTC offset (ms) of the time zone the process runs in
    rateLimiter,  \* rateLimiter.lastPostTime of the processor's process
    pass,         \* the processScheduledPosts invocation in progress (or idle)
    last,         \* what the most recent step did and returned (observation)
    delivered,    \* content hashes the platform accepted, in order (history)
    admitted,     \* the items addToQueue admitted, in order (history)
    temp,         \* the files in TEMP_DIR
    ingest        \* the addToQueue call in progress in another process (or idle)

vars == <<store, now, config, localOffset, rateLimiter, pass, last, delivered,
          admitted, temp, ingest>>

---------------------------------------------------------------------------
(* Program constants *)

\* rateLimiter.minInterval
MinInterval == 60000

\* capacity of queue.postedHashes
MaxPostedHashes == 1000

MinuteMs == 60 * 1000
HourMs == 60 * MinuteMs
DayMs == 24 * HourMs

---------------------------------------------------------------------------
(* Bounds of the model *)

\* items admitted by addToQueue in one behaviour
MaxItems == 3

\* items admitted by addToQueue in one behaviour that starts from a long history
MaxHistItems == 2

\* items admitted by addToQueue in one behaviour over every kind of media
MaxMediaItems == 2

\* items admitted by addToQueue in one behaviour of ingestion alone
MaxInputItems == 2

\* items admitted by addToQueue in one behaviour with crashes
MaxCrashItems == 2

\* items admitted by addToQueue, while passes run, in one behaviour of two
\* processes
MaxConcItems == 1

\* platform deliveries after which the process no longer dies in mid-pass
MaxDeliveries == 2

\* items admitted by addToQueue in one behaviour of recurring passes
MaxLiveItems == 2

\* items of a queue that is saved and loaded again
MaxStoreItems == 2

\* items admitted by addToQueue in one behaviour over every way to publish
MaxPublishItems == 1

\* items admitted by addToQueue in one behaviour over the credentials
MaxCredItems == 2

\* items admitted by addToQueue in one behaviour that starts from a damaged
\* queue.json
MaxDamagedItems == 2

---------------------------------------------------------------------------
(* Generic helpers *)

Null == <<>>

Some(v) == <<v>>

Range(s) == {s[i] : i \in 1..Len(s)}

\* Array.prototype.includes
Includes(s, v) == \E i \in 1..Len(s) : s[i] = v

\* Array.prototype.slice(0, n) for n >= 0
SliceTo(s, n) == IF n >= Len(s) THEN s ELSE SubSeq(s, 1, n)

\* x || d for a nullable x
OrElse(x, d) == IF x = Null THEN d ELSE x[1]

---------------------------------------------------------------------------
(* The environment: clock readings, time zones, configurations, inputs *)

\* Asia/Bangkok, the default of config.settings.schedule.timezone
BangkokOffset == 7 * HourMs

\* The instant the behaviours start at: 1970-01-02 08:59:00.000 in Bangkok,
\* one minute before the 09:00 slot.
T0 == DayMs + 8 * HourMs + 59 * MinuteMs - BangkokOffset

\* The instants at which the clock is read: T0, and the two sides of the
\* rate limiter's boundary after a delivery at T0.  The second is also the
\* last millisecond before the 09:00 slot, the third the slot itself.
ClockReadings == {T0, T0 + MinInterval - 1, T0 + MinInterval}

\* UTC offsets of the machine the process runs on: a machine in Bangkok
LocalOffsets == {BangkokOffset}

\* config.json after loadConfig: the fields the core reads.
\*   fbValid     validateConfig(config).valid
\*   bot_token   config.settings.telegram?.bot_token is truthy
\*   post_times  "HH:MM" strings, each as <<HH, MM>>
Configs ==
    [ dry_run : BOOLEAN,
      fbValid : BOOLEAN,
      bot_token : {TRUE},
      post_times : {<< <<9, 0>>, <<18, 0>> >>},
      posts_per_day : {Null},
      tzOffset : {BangkokOffset} ]

\* A JS string value
Str(tokens) == [t |-> "string", v |-> tokens]

\* The content objects handed to addToQueue
Contents ==
    { [text |-> Str(<<"hello", "#now">>), mediaType |-> Null,
       mediaUrl |-> Null, telegramFileId |-> Null],
      [text |-> Str(<<"hello", "#now">>), mediaType |-> Some("text"),
       mediaUrl |-> Null, telegramFileId |-> Null],
      [text |-> Str(<<"world">>), mediaType |-> Some("image"),
       mediaUrl |-> Some("file_id"), telegramFileId |-> Some("file_id")],
      [text |-> Str(<<>>), mediaType |-> Some("text"),
       mediaUrl |-> Null, telegramFileId |-> Null] }

\* Content objects of every media type and media source
MediaContents ==
    { [text |-> Str(<<"hello", "#now">>), mediaType |-> Null,
       mediaUrl |-> Null, telegramFileId |-> Null],
      [text |-> Str(<<"world">>), mediaType |-> Some("image"),
       mediaUrl |-> Some("file_id"), telegramFileId |-> Some("file_id")],
      [text |-> Str(<<"post", "#now">>), mediaType |-> Some("video"),
       mediaUrl |-> Some("file_id"), telegramFileId |-> Some("file_id")],
      [text |-> Str(<<"post">>), mediaType |-> Some("image"),
       mediaUrl |-> Some("url"), telegramFileId |-> Null] }

\* Content objects of every media type with every kind of media reference:
\* a Telegram file id, a path of a local file ("local"), a remote URL
\* ("url"), none
PublishContents ==
    { [text |-> Str(<<"hello", "#now">>), mediaType |-> Null,
       mediaUrl |-> Null, telegramFileId |-> Null],
      [text |-> Str(<<"world", "#now">>), mediaType |-> Some("image"),
       mediaUrl |-> Some("file_id"), telegramFileId |-> Some("file_id")],
      [text |-> Str(<<"world">>), mediaType |-> Some("image"),
       mediaUrl |-> Some("local"), telegramFileId |-> Null],
      [text |-> Str(<<"world", "#now">>), mediaType |-> Some("image"),
       mediaUrl |-> Some("url"), telegramFileId |-> Null],
      [text |-> Str(<<"world", "#now">>), mediaType |-> Some("image"),
       mediaUrl |-> Null, telegramFileId |-> Null],
      [text |-> Str(<<"post", "#now">>), mediaType |-> Some("video"),
       mediaUrl |-> Some("file_id"), telegramFileId |-> Some("file_id")],
      [text |-> Str(<<"post", "#now">>), mediaType |-> Some("video"),
       mediaUrl |-> Some("local"), telegramFileId |-> Null],
      [text |-> Str(<<"post">>), mediaType |-> Some("video"),
       mediaUrl |-> Some("url"), telegramFileId |-> Null],
      [text |-> Str(<<"post", "#now">>), mediaType |-> Some("video"),
       mediaUrl |-> Null, telegramFileId |-> Null] }

\* Content objects around the limits of validateInput: texts at and over the
\* length limit, and the malformed ones.  "x2200" is a run of 2200
\* characters; a text that is not a string has t # "string".
InputContents ==
    { [text |-> Str(<<"hello", "#now">>), mediaType |-> Null,
       mediaUrl |-> Null, telegramFileId |-> Null],
      [text |-> Str(<<"post">>), mediaType |-> Some("video"),
       mediaUrl |-> Some("url"), telegramFileId |-> Null],
      [text |-> Str(<<"x2200">>), mediaType |-> Some("text"),
       mediaUrl |-> Null, telegramFileId |-> Null],
      [text |-> Str(<<"x2200", "!">>), mediaType |-> Some("text"),
       mediaUrl |-> Null, telegramFileId |-> Null],
      [text |-> Str(<<"x2200", "!">>), mediaType |-> Some("audio"),
       mediaUrl |-> Null, telegramFileId |-> Null],
      [text |-> Str(<<"hello">>), mediaType |-> Some("audio"),
       mediaUrl |-> Null, telegramFileId |-> Null],
      [text |-> Str(<<>>), mediaType |-> Null,
       mediaUrl |-> Null, telegramFileId |-> Null],
      [text |-> [t |-> "undefined", v |-> <<>>], mediaType |-> Some("image"),
       mediaUrl |-> Some("url"), telegramFileId |-> Null],
      [text |-> [t |-> "number", v |-> <<"1">>], mediaType |-> Null,
       mediaUrl |-> Null, telegramFileId |-> Null],
      [text |-> [t |-> "undefined", v |-> <<>>], mediaType |-> Some("audio"),
       mediaUrl |-> Null, telegramFileId |-> Null] }

---------------------------------------------------------------------------
(* Pure functions of src/index.js *)

\* generateContentHash(text, mediaType = 'text'): the digest of
\* `${text}:${mediaType}`.  The default applies to an undefined mediaType
\* only.  SHA-256 cut to 16 hex digits is taken to be collision free: a hash
\* is represented by the string that was digested.
generateContentHash(text, mediaType) ==
    [sha256_16 |-> text \o <<":">> \o <<OrElse(mediaType, "text")>>]

\* isDuplicateContent as it would be if it never found a duplicate
isDuplicateContent_Never(queue, hash) == FALSE

\* isDuplicateContent as it would be if it looked at pending items too
isDuplicateContent_AlsoPending(queue, hash) ==
    \/ Includes(queue.postedHashes, hash)
    \/ \E i \in 1..Len(queue.pending) : queue.pending[i].contentHash = hash

\* isDuplicateContent(queue, hash)
isDuplicateContent(queue, hash) == Includes(queue.postedHashes, hash)

\* String.prototype.length of a token, and of a string
TokenLen(tok) ==
    CASE tok = "hello" -> 5
      [] tok = "world" -> 5
      [] tok = "#now" -> 4
      [] tok = "post" -> 4
      [] tok = "x2200" -> 2200
      [] OTHER -> 1

RECURSIVE StrLen(_)
StrLen(s) == IF s = <<>> THEN 0 ELSE TokenLen(Head(s)) + StrLen(Tail(s))

validMediaTypes == {"text", "image", "video"}

\* validateInput with >= in place of > in the length test
validateInput_LengthInclusive(item) ==
    (IF item.text.t # "string" \/ item.text.v = <<>>
        THEN <<"Text content is required">>
        ELSE IF StrLen(item.text.v) >= 2200
            THEN <<"Text exceeds Facebook limit of 2200 characters">>
            ELSE <<>>)
    \o (IF item.mediaType # Null /\ item.mediaType[1] \notin validMediaTypes
        THEN <<"Invalid media type">>
        ELSE <<>>)

\* validateInput(item).errors
validateInput(item) ==
    (IF item.text.t # "string" \/ item.text.v = <<>>
        THEN <<"Text content is required">>
        ELSE IF StrLen(item.text.v) > 2200
            THEN <<"Text exceeds Facebook limit of 2200 characters">>
            ELSE <<>>)
    \o (IF item.mediaType # Null /\ item.mediaType[1] \notin validMediaTypes
        THEN <<"Invalid media type">>
        ELSE <<>>)

\* validateConfig(config).valid
validateConfig(cfg) == cfg.fbValid

\* String.prototype.includes('YOUR_') on a credential
IncludesPlaceholder(str) == "YOUR_" \in Range(str)

\* validateConfig as it would be if it did not look for the placeholder
validateConfigErrors_NoPlaceholder(cfg) ==
    (IF cfg.page_id = Null \/ cfg.page_id[1] = <<>>
     THEN <<"Facebook Page ID is required">> ELSE <<>>)
    \o (IF cfg.access_token = Null \/ cfg.access_token[1] = <<>>
        THEN <<"Facebook Access Token is required">> ELSE <<>>)

\* validateConfig(config).errors, from config.settings.facebook.page_id and
\* .access_token: each is undefined, '' or a string
validateConfigErrors(cfg) ==
    (IF cfg.page_id = Null \/ cfg.page_id[1] = <<>>
        \/ IncludesPlaceholder(cfg.page_id[1])
     THEN <<"Facebook Page ID is required">> ELSE <<>>)
    \o (IF cfg.access_token = Null \/ cfg.access_token[1] = <<>>
           \/ IncludesPlaceholder(cfg.access_token[1])
        THEN <<"Facebook Access Token is required">> ELSE <<>>)

\* checkRateLimit with <= in place of <
checkRateLimit_Inclusive(t, lastPost) == ~(t - lastPost <= MinInterval)

\* checkRateLimit().allowed, at clock reading t with rateLimiter.lastPostTime = lastPost
checkRateLimit(t, lastPost) == ~(t - lastPost < MinInterval)

\* getNextScheduleTime(config), at clock reading t in a process whose zone is
\* off ms east of UTC.  now.toLocaleString('en-US', {timeZone}) is the wall
\* clock of the configured zone to the second; new Date(thatString) reads it
\* as a time of the process's zone, so tzNow is the instant wall - off, and
\* getHours/getMinutes/setHours/setDate work on wall.  (No zone changes its
\* offset in the days modelled.)
SlotMinutes(slot) == slot[1] * 60 + slot[2]

\* the test of the loop with >= in place of >
LaterThan_OrEqual(slot, currentTime) == SlotMinutes(slot) >= currentTime

\* hour * 60 + minute > currentTime
LaterThan(slot, currentTime) == SlotMinutes(slot) > currentTime

RECURSIVE FirstLater(_, _, _)
FirstLater(times, i, currentTime) ==
    IF i > Len(times) THEN 0
    ELSE IF LaterThan(times[i], currentTime) THEN i
    ELSE FirstLater(times, i + 1, currentTime)

getNextScheduleTime(cfg, t, off) ==
    LET wall == (t \div 1000) * 1000 + cfg.tzOffset
        currentTime == (wall \div MinuteMs) % (24 * 60)
        midnight == (wall \div DayMs) * DayMs
        k == FirstLater(cfg.post_times, 1, currentTime)
    IN  IF k # 0
        THEN midnight + SlotMinutes(cfg.post_times[k]) * MinuteMs - off
        ELSE midnight + DayMs + SlotMinutes(cfg.post_times[1]) * MinuteMs - off

---------------------------------------------------------------------------
(* The store *)

EmptyQueue == [pending |-> <<>>, posted |-> <<>>, lastPostTime |-> Null,
               postedHashes |-> <<>>]

\* The text of queue.json.  JSON.stringify writes it and JSON.parse reads it;
\* a JSON value is represented by its syntax tree.

JNull == [j |-> "null"]

JString(v) == [j |-> "string", v |-> v]

JArray(elems) == [j |-> "array", v |-> elems]

\* an object holds the keys that were written, and no others
JObject(members) == [j |-> "object", v |-> members]

\* the properties of an item that addToQueue's object literal sets, and those
\* the processor assigns later (undefined until then)
LiteralKeys == {"id", "text", "mediaUrl", "mediaType", "telegramFileId",
                "contentHash", "addedAt", "scheduledFor", "status"}

AssignedKeys == {"postedAt", "facebookPostId", "error"}

\* the properties that hold null or a string; the others hold a string
NullableKeys == {"mediaUrl", "telegramFileId", "scheduledFor"}

\* JSON.stringify of one property value: null is written as null
stringifyValue(item, k) ==
    IF k \in NullableKeys \cup AssignedKeys
    THEN IF item[k] = Null THEN JNull ELSE JString(item[k][1])
    ELSE JString(item[k])

\* JSON.stringify of an item as it would be if it left out null properties
\* the way it leaves out undefined ones
stringifyItem_DropsNull(item) ==
    JObject([k \in {key \in LiteralKeys \cup AssignedKeys :
                      key \in NullableKeys \cup AssignedKeys => item[key] # Null}
               |-> stringifyValue(item, k)])

\* JSON.stringify of an item: a property whose value is undefined is left out
stringifyItem(item) ==
    JObject([k \in LiteralKeys \cup {key \in AssignedKeys : item[key] # Null}
               |-> stringifyValue(item, k)])

\* JSON.stringify(queue, null, 2)
JSONstringify(queue) ==
    JObject([pending |-> JArray([i \in 1..Len(queue.pending) |->
                                    stringifyItem(queue.pending[i])]),
             posted |-> JArray([i \in 1..Len(queue.posted) |->
                                    stringifyItem(queue.posted[i])]),
             lastPostTime |-> IF queue.lastPostTime = Null THEN JNull
                              ELSE JString(queue.lastPostTime[1]),
             postedHashes |-> JArray([i \in 1..Len(queue.postedHashes) |->
                                        JString(queue.postedHashes[i])])])

\* reading a property of a parsed object: a key that is not there reads as
\* undefined, which like null is the empty sequence here
parseNullable(o, k) ==
    IF k \notin DOMAIN o.v THEN Null
    ELSE IF o.v[k].j = "null" THEN Null
    ELSE Some(o.v[k].v)

parseItem(o) ==
    [ id |-> o.v.id.v,
      text |-> o.v.text.v,
      mediaUrl |-> parseNullable(o, "mediaUrl"),
      mediaType |-> o.v.mediaType.v,
      telegramFileId |-> parseNullable(o, "telegramFileId"),
      contentHash |-> o.v.contentHash.v,
      addedAt |-> o.v.addedAt.v,
      scheduledFor |-> parseNullable(o, "scheduledFor"),
      status |-> o.v.status.v,
      postedAt |-> parseNullable(o, "postedAt"),
      facebookPostId |-> parseNullable(o, "facebookPostId"),
      error |-> parseNullable(o, "error") ]

\* JSON.parse of the text of a queue document
JSONparse(text) ==
    [ pending |-> [i \in 1..Len(text.v.pending.v) |-> parseItem(text.v.pending.v[i])],
      posted |-> [i \in 1..Len(text.v.posted.v) |-> parseItem(text.v.posted.v[i])],
      lastPostTime |-> parseNullable(text, "lastPostTime"),
      postedHashes |-> [i \in 1..Len(text.v.postedHashes.v) |->
                          text.v.postedHashes.v[i].v] ]

\* queue.json holds text that is not JSON (a truncated document)
Unparseable == [j |-> "syntax error"]

\* queue.json exists and cannot be read (readFileSync throws)
Unreadable == [j |-> "unreadable"]

\* queue.json is there and JSON.parse(fs.readFileSync(...)) returns
Readable(s) == s.exists /\ s.doc \notin {Unparseable, Unreadable}

\* loadQueue() as it would be without its try/catch: what the file holds is
\* what the caller gets
loadQueue_Uncaught(s) == IF s.exists THEN s.doc ELSE EmptyQueue

\* loadQueue(): the document parsed, or the empty queue when queue.json does
\* not exist and when reading or parsing it throws.  store.doc keeps the
\* document as JSON.parse returns it; loadQueueText and saveQueueText are
\* the same two functions over the text of the file.
loadQueue(s) == IF Readable(s) THEN s.doc ELSE EmptyQueue

\* saveQueue(queue): queue.json after the write
saveQueue(queue) == [exists |-> TRUE, doc |-> queue]

\* loadQueue() over a queue.json that holds its text
loadQueueText(s) == IF Readable(s) THEN JSONparse(s.doc) ELSE EmptyQueue

\* saveQueue(queue): queue.json, holding its text, after the write
saveQueueText(queue) == [exists |-> TRUE, doc |-> JSONstringify(queue)]

\* The queue as the next loadQueue() would return it
Persisted == loadQueue(store)

---------------------------------------------------------------------------
(* Observations: what a step did and returned *)

NoAttempt ==
    [ref |-> 0, itemId |-> "", hash |-> Null, outcome |-> "none", calls |-> <<>>,
     gateAt |-> 0, lastPostAtGate |-> 0, resultId |-> Null, created |-> Null,
     requests |-> <<>>, session |-> Null]

NoRet == [success |-> FALSE, reason |-> "", errors |-> <<>>, item |-> Null,
          value |-> Null]

Obs(op, ret, att) == [op |-> op, ret |-> ret, att |-> att]

\* a step that returns nothing and attempts no delivery
NoObs == Obs("", NoRet, NoAttempt)

---------------------------------------------------------------------------
(* Ingestion and scheduling *)

\* The item object built by addToQueue.  (item.source is copied from the
\* content and never read by the core; it is left out.)
NewItem(content, contentHash, t) ==
    [ id |-> ToString(t),
      text |-> content.text.v,
      mediaUrl |-> content.mediaUrl,
      mediaType |-> OrElse(content.mediaType, "text"),
      telegramFileId |-> content.telegramFileId,
      contentHash |-> contentHash,
      addedAt |-> t,
      scheduledFor |-> Null,
      status |-> "pending",
      postedAt |-> Null,
      facebookPostId |-> Null,
      error |-> Null ]

\* slice(0, n) as it would be if it stopped one element early
Slice0_OneFewer(s, n) ==
    IF n - 1 >= 0 THEN SliceTo(s, n - 1)
    ELSE IF Len(s) + n - 1 <= 0 THEN <<>> ELSE SubSeq(s, 1, Len(s) + n - 1)

\* Array.prototype.slice(0, n): a negative n counts from the end
Slice0(s, n) ==
    IF n >= 0 THEN SliceTo(s, n)
    ELSE IF Len(s) + n <= 0 THEN <<>> ELSE SubSeq(s, 1, Len(s) + n)

\* Unscheduled as it would be if it selected every pending item
Unscheduled_All(pending) == [i \in 1..Len(pending) |-> i]

\* the positions of pending whose item has no scheduledFor
Unscheduled(pending) ==
    SelectSeq([i \in 1..Len(pending) |-> i],
              LAMBDA i : pending[i].scheduledFor = Null)

\* schedulePosts as it would be if it moved on by an hour from one item to
\* the next
schedulePosts_Staggered(s, cfg, t, off) ==
    LET queue == loadQueue(s)
        unscheduled == Unscheduled(queue.pending)
        postsPerDay == IF cfg.posts_per_day = Null \/ cfg.posts_per_day[1] = 0
                       THEN 2 ELSE cfg.posts_per_day[1]
        toSchedule == Range(Slice0(unscheduled, postsPerDay))
        scheduled == [i \in 1..Len(queue.pending) |->
                        IF i \in toSchedule
                        THEN [queue.pending[i] EXCEPT
                                !.scheduledFor =
                                   Some(getNextScheduleTime(cfg, t, off)
                                        + Cardinality({j \in toSchedule : j < i})
                                          * HourMs)]
                        ELSE queue.pending[i]]
    IN  IF unscheduled = <<>> THEN s
        ELSE saveQueue([queue EXCEPT !.pending = scheduled])

\* schedulePosts(): the document in queue.json when it returns, having found
\* cfg and s there, at clock reading t
schedulePosts(s, cfg, t, off) ==
    LET queue == loadQueue(s)
        unscheduled == Unscheduled(queue.pending)
        postsPerDay == IF cfg.posts_per_day = Null \/ cfg.posts_per_day[1] = 0
                       THEN 2 ELSE cfg.posts_per_day[1]
        toSchedule == Range(Slice0(unscheduled, postsPerDay))
        scheduled == [i \in 1..Len(queue.pending) |->
                        IF i \in toSchedule
                        THEN [queue.pending[i] EXCEPT
                                !.scheduledFor = Some(getNextScheduleTime(cfg, t, off))]
                        ELSE queue.pending[i]]
    IN  IF unscheduled = <<>> THEN s
        ELSE saveQueue([queue EXCEPT !.pending = scheduled])

\* no addToQueue call is in progress in the other process
IdleIngest == [pc |-> "idle", loaded |-> EmptyQueue, queue |-> EmptyQueue,
               item |-> Null]

\* addToQueue(content), with the schedulePosts() it ends with
AddToQueue(content) ==
    LET errors == validateInput(content)
        queue == loadQueue(store)
        contentHash == generateContentHash(content.text.v, content.mediaType)
        item == NewItem(content, contentHash, now)
        saved == saveQueue([queue EXCEPT !.pending = Append(@, item)])
    IN  /\ IF errors # <<>>
           THEN /\ last' = Obs("addToQueue",
                               [NoRet EXCEPT !.errors = errors], NoAttempt)
                /\ UNCHANGED <<store, admitted>>
           ELSE IF isDuplicateContent(queue, contentHash)
           THEN /\ last' = Obs("addToQueue",
                               [NoRet EXCEPT !.reason = "duplicate"], NoAttempt)
                /\ UNCHANGED <<store, admitted>>
           ELSE /\ store' = schedulePosts(saved, config, now, localOffset)
                /\ admitted' = Append(admitted, item)
                /\ last' = Obs("addToQueue",
                               [NoRet EXCEPT !.success = TRUE, !.item = Some(item)],
                               NoAttempt)
        /\ UNCHANGED <<now, config, localOffset, rateLimiter, pass, delivered, temp, ingest>>

\* addToQueue in another process, step by step.  Its reads and writes of
\* queue.json are separate system calls, and the processor's process may
\* write the file between any two of them.

\* the queue object addToQueue would save if it read queue.json again first
IngestQueue_Reloads(g, s) ==
    [loadQueue(s) EXCEPT !.pending = Append(@, g.item[1])]

\* the queue object addToQueue saves: the one it loaded, with the item pushed
IngestQueue(g, s) == g.queue

\* validateInput, loadQueue, the duplicate test, queue.pending.push(item)
IngestLoad(content) ==
    LET errors == validateInput(content)
        queue == loadQueue(store)
        contentHash == generateContentHash(content.text.v, content.mediaType)
        item == NewItem(content, contentHash, now)
    IN  /\ ingest.pc = "idle"
        /\ IF errors # <<>>
           THEN /\ last' = Obs("addToQueue",
                               [NoRet EXCEPT !.errors = errors], NoAttempt)
                /\ UNCHANGED ingest
           ELSE IF isDuplicateContent(queue, contentHash)
           THEN /\ last' = Obs("addToQueue",
                               [NoRet EXCEPT !.reason = "duplicate"], NoAttempt)
                /\ UNCHANGED ingest
           ELSE /\ ingest' = [pc |-> "loaded", loaded |-> queue,
                              queue |-> [queue EXCEPT !.pending = Append(@, item)],
                              item |-> Some(item)]
                /\ last' = NoObs
        /\ UNCHANGED <<store, now, config, localOffset, rateLimiter, pass, delivered,
                       admitted, temp>>

\* saveQueue(queue) of addToQueue
IngestSave ==
    /\ ingest.pc = "loaded"
    /\ store' = saveQueue(IngestQueue(ingest, store))
    /\ ingest' = [ingest EXCEPT !.pc = "saved"]
    /\ admitted' = Append(admitted, ingest.item[1])
    /\ last' = NoObs
    /\ UNCHANGED <<now, config, localOffset, rateLimiter, pass, delivered, temp>>

\* schedulePosts() up to its saveQueue: loadConfig, loadQueue, the slots;
\* it returns at once, and addToQueue with it, when nothing is unscheduled
IngestScheduleLoad ==
    LET queue == loadQueue(store)
        scheduled == schedulePosts(store, config, now, localOffset)
        ret == [NoRet EXCEPT !.success = TRUE, !.item = ingest.item]
    IN  /\ ingest.pc = "saved"
        /\ IF Unscheduled(queue.pending) = <<>>
           THEN /\ ingest' = IdleIngest
                /\ last' = Obs("addToQueue", ret, NoAttempt)
           ELSE /\ ingest' = [ingest EXCEPT !.pc = "scheduled", !.loaded = queue,
                                            !.queue = scheduled.doc]
                /\ last' = NoObs
        /\ UNCHANGED <<store, now, config, localOffset, rateLimiter, pass, delivered,
                       admitted, temp>>

\* saveQueue(queue) of schedulePosts, and the return of addToQueue
IngestScheduleSave ==
    /\ ingest.pc = "scheduled"
    /\ store' = saveQueue(ingest.queue)
    /\ ingest' = IdleIngest
    /\ last' = Obs("addToQueue",
                   [NoRet EXCEPT !.success = TRUE, !.item = ingest.item], NoAttempt)
    /\ UNCHANGED <<now, config, localOffset, rateLimiter, pass, delivered, admitted,
                   temp>>

\* schedulePosts() on its own
SchedulePosts ==
    /\ store' = schedulePosts(store, config, now, localOffset)
    /\ last' = NoObs
    /\ UNCHANGED <<now, config, localOffset, rateLimiter, pass, delivered, admitted, temp, ingest>>

---------------------------------------------------------------------------
(* Delivery *)

\* The network requests postToFacebook makes for item once past its gates,
\* in order, when none of them fails.  mediaPath is the downloaded scratch
\* file when there is a Telegram file id and a bot token, else item.mediaUrl;
\* a scratch file exists, a mediaUrl that is a "local:" path exists, any
\* other mediaUrl does not.
HasTelegramFile(item, cfg) == item.telegramFileId # Null /\ cfg.bot_token

MediaPath(item, cfg) ==
    IF HasTelegramFile(item, cfg) THEN Some("temp") ELSE item.mediaUrl

MediaExists(item, cfg) ==
    MediaPath(item, cfg) \in {Some("temp"), Some("local")}

PublishCalls(item, cfg) ==
    IF item.mediaType = "video" /\ MediaExists(item, cfg)
    THEN <<"videos:start", "videos:transfer", "videos:finish">>
    ELSE IF item.mediaType = "image" /\ MediaExists(item, cfg)
    THEN <<"photos:multipart">>
    ELSE IF item.mediaType = "image" /\ MediaPath(item, cfg) # Null
    THEN <<"photos:url">>
    ELSE <<"feed">>

NetworkCalls(item, cfg) ==
    (IF HasTelegramFile(item, cfg) THEN <<"getFile", "download">> ELSE <<>>)
    \o PublishCalls(item, cfg)

\* A request to the platform: the endpoint under the page and the fields of
\* its body that the core sets (access_token, which every request carries,
\* is left out); a field that is not in the body is Null
Request(endpoint) ==
    [endpoint |-> endpoint, upload_phase |-> Null, upload_session_id |-> Null,
     start_offset |-> Null, file |-> Null, url |-> Null, text |-> Null]

\* upload_session_id values the platform hands out
SessionIds == {"session-1", "session-2"}

\* postVideoToFacebook as it would be if finish named the video id that
\* start returned in place of the session id
postVideoToFacebook_FinishByVideoId(item, videoPath, uploadSessionId) ==
    << [Request("videos") EXCEPT !.upload_phase = Some("start")],
       [Request("videos") EXCEPT !.upload_phase = Some("transfer"),
                                 !.upload_session_id = Some(uploadSessionId),
                                 !.start_offset = Some("0"),
                                 !.file = Some(videoPath)],
       [Request("videos") EXCEPT !.upload_phase = Some("finish"),
                                 !.upload_session_id = Some("video_id"),
                                 !.text = Some(item.text)] >>

\* postVideoToFacebook(item, config, videoPath): its three requests, in
\* order, when start returns uploadSessionId.  The transfer body holds the
\* whole of the file at videoPath (createMultipartFormData reads it with
\* readFileSync); file_size, which start carries, is left out.
postVideoToFacebook(item, videoPath, uploadSessionId) ==
    << [Request("videos") EXCEPT !.upload_phase = Some("start")],
       [Request("videos") EXCEPT !.upload_phase = Some("transfer"),
                                 !.upload_session_id = Some(uploadSessionId),
                                 !.start_offset = Some("0"),
                                 !.file = Some(videoPath)],
       [Request("videos") EXCEPT !.upload_phase = Some("finish"),
                                 !.upload_session_id = Some(uploadSessionId),
                                 !.text = Some(item.text)] >>

\* the requests postToFacebook sends to the platform for item, in order,
\* when none of them fails: one for each of PublishCalls
PublishRequests(item, cfg, uploadSessionId) ==
    IF item.mediaType = "video" /\ MediaExists(item, cfg)
    THEN postVideoToFacebook(item, MediaPath(item, cfg)[1], uploadSessionId)
    ELSE IF item.mediaType = "image" /\ MediaExists(item, cfg)
    THEN << [Request("photos") EXCEPT !.file = MediaPath(item, cfg),
                                      !.text = Some(item.text)] >>
    ELSE IF item.mediaType = "image" /\ MediaPath(item, cfg) # Null
    THEN << [Request("photos") EXCEPT !.url = MediaPath(item, cfg),
                                      !.text = Some(item.text)] >>
    ELSE << [Request("feed") EXCEPT !.text = Some(item.text)] >>

\* downloadTelegramFile's localPath: path.join(TEMP_DIR, `${Date.now()}_${fileName}`)
LocalPath(t, fileName) == [dir |-> "temp", name |-> <<ToString(t), "_", fileName>>]

\* cleanupTempFile as it would be if it unlinked nothing
cleanupTempFile_Keeps(filePath, files) == files

\* cleanupTempFile(filePath): the files of TEMP_DIR after the call
cleanupTempFile(filePath, files) ==
    IF filePath # Null /\ filePath[1] \in files /\ filePath[1].dir = "temp"
    THEN files \ {filePath[1]}
    ELSE files

\* Gate as it would be with the dry-run test after validateConfig
Gate_ValidatesFirst(cfg, t, lastPost) ==
    IF ~validateConfig(cfg) THEN "config_error"
    ELSE IF cfg.dry_run THEN "dry_run"
    ELSE IF ~checkRateLimit(t, lastPost) THEN "rate_limited"
    ELSE "network"

\* What postToFacebook does before its first network request:
\* "dry_run", "config_error", "rate_limited", or "network" (past the gates)
Gate(cfg, t, lastPost) ==
    IF cfg.dry_run THEN "dry_run"
    ELSE IF ~validateConfig(cfg) THEN "config_error"
    ELSE IF ~checkRateLimit(t, lastPost) THEN "rate_limited"
    ELSE "network"

---------------------------------------------------------------------------
(* The processor pass.  In memory the items loaded from pending are objects: *)
(* objs[r] is the object loaded at position r, pending and due hold          *)
(* references r, so a write to a due item is seen through queue.pending.     *)
(* done lists the due items whose iteration of the loop has finished.        *)

IdlePass ==
    [pc |-> "idle", cfg |-> Null, nowIso |-> 0, objs |-> <<>>, pending |-> <<>>,
     posted |-> <<>>, postedHashes |-> <<>>, due |-> <<>>, i |-> 0,
     done |-> <<>>, att |-> NoAttempt]

\* the filter of processScheduledPosts
IsDue(item, nowIso) ==
    \/ "#now" \in Range(item.text)
    \/ (item.scheduledFor # Null /\ item.scheduledFor[1] <= nowIso)

\* RecordHash without the shift()
RecordHash_NoShift(postedHashes, contentHash) ==
    IF ~Includes(postedHashes, contentHash)
    THEN Append(postedHashes, contentHash)
    ELSE postedHashes

\* queue.postedHashes after the bookkeeping of one posted item
RecordHash(postedHashes, contentHash) ==
    IF ~Includes(postedHashes, contentHash)
    THEN LET pushed == Append(postedHashes, contentHash)
         IN  IF Len(pushed) > MaxPostedHashes THEN Tail(pushed) ELSE pushed
    ELSE postedHashes

\* RemovePosted as it would be if it removed nothing
RemovePosted_None(p, itemId) == p.pending

\* RemovePosted as it would be if it also turned the remaining items round
RemovePosted_Reverses(p, itemId) ==
    LET kept == SelectSeq(p.pending, LAMBDA r : p.objs[r].id # itemId)
    IN  [k \in 1..Len(kept) |-> kept[Len(kept) + 1 - k]]

\* queue.pending after the removal of a posted item
RemovePosted(p, itemId) ==
    SelectSeq(p.pending, LAMBDA r : p.objs[r].id # itemId)

\* the try branch after postToFacebook returned result
OnPosted(p, r, resultId) ==
    LET item == [p.objs[r] EXCEPT !.postedAt = Some(p.nowIso),
                                  !.facebookPostId = Some(resultId),
                                  !.status = "posted"]
    IN  [p EXCEPT !.objs[r] = item,
                  !.posted = Append(@, item),
                  !.pending = RemovePosted(p, item.id),
                  !.postedHashes = RecordHash(@, item.contentHash),
                  !.i = @ + 1,
                  !.done = Append(@, r),
                  !.pc = "loop",
                  !.att = NoAttempt]

\* the catch branch as it would be if it left the loop
OnFailed_Break(p, r, message) ==
    [p EXCEPT !.objs[r].status = "failed",
              !.objs[r].error = Some(message),
              !.i = Len(p.due) + 1,
              !.done = Append(@, r),
              !.pc = "loop",
              !.att = NoAttempt]

\* the catch branch
OnFailed(p, r, message) ==
    [p EXCEPT !.objs[r].status = "failed",
              !.objs[r].error = Some(message),
              !.i = @ + 1,
              !.done = Append(@, r),
              !.pc = "loop",
              !.att = NoAttempt]

\* the queue object of the pass p, as saveQueue would write it (nothing sets
\* lastPostTime: it is what was loaded)
PassQueue(p, s) ==
    [loadQueue(s) EXCEPT
       !.pending = [k \in 1..Len(p.pending) |-> p.objs[p.pending[k]]],
       !.posted = p.posted,
       !.postedHashes = p.postedHashes]

\* the loop body as it would be if it saved the queue after each item
StoreAfterIteration_Saves(s, p) == saveQueue(PassQueue(p, s))

\* queue.json after an iteration of the loop: the loop body writes nothing
StoreAfterIteration(s, p) == s

\* ProcessStart as it would be if the rate-limiter clock outlived the process
ProcessStart_KeepsClock(fresh) ==
    LET queue == loadQueue(store)
        n == Len(queue.pending)
        refs == [r \in 1..n |-> r]
    IN  /\ pass.pc = "idle"
        /\ pass' = [pc |-> "loop", cfg |-> Some(config), nowIso |-> now,
                    objs |-> queue.pending, pending |-> refs,
                    posted |-> queue.posted, postedHashes |-> queue.postedHashes,
                    due |-> SelectSeq(refs, LAMBDA r : IsDue(queue.pending[r], now)),
                    i |-> 1, done |-> <<>>, att |-> NoAttempt]
        /\ rateLimiter' = rateLimiter
        /\ last' = NoObs
        /\ UNCHANGED <<store, now, config, localOffset, delivered, admitted, temp, ingest>>

\* processScheduledPosts() up to its loop: loadConfig, loadQueue, the due items.
\* fresh: the call is the first of a new process (the CLI's "process").
ProcessStart(fresh) ==
    LET queue == loadQueue(store)
        n == Len(queue.pending)
        refs == [r \in 1..n |-> r]
    IN  /\ pass.pc = "idle"
        /\ pass' = [pc |-> "loop", cfg |-> Some(config), nowIso |-> now,
                    objs |-> queue.pending, pending |-> refs,
                    posted |-> queue.posted, postedHashes |-> queue.postedHashes,
                    due |-> SelectSeq(refs, LAMBDA r : IsDue(queue.pending[r], now)),
                    i |-> 1, done |-> <<>>, att |-> NoAttempt]
        /\ rateLimiter' = IF fresh THEN 0 ELSE rateLimiter
        /\ last' = NoObs
        /\ UNCHANGED <<store, now, config, localOffset, delivered, admitted, temp, ingest>>

\* Attempt as it would be if a dry-run delivery recorded no content hash
Attempt_DryRunNoHash ==
    /\ pass.pc = "loop"
    /\ pass.i <= Len(pass.due)
    /\ LET r == pass.due[pass.i]
           item == pass.objs[r]
           cfg == pass.cfg[1]
           gate == Gate(cfg, now, rateLimiter)
           att == [ref |-> r, itemId |-> item.id, hash |-> Some(item.contentHash),
                   outcome |-> gate, calls |-> <<>>, gateAt |-> now,
                   lastPostAtGate |-> rateLimiter, resultId |-> Null,
                   created |-> Null, requests |-> <<>>, session |-> Null]
       IN  /\ pass' = CASE gate = "dry_run" ->
                             [OnPosted(pass, r, <<"dry-run-", ToString(now)>>)
                                EXCEPT !.postedHashes = pass.postedHashes]
                        [] gate = "config_error" -> OnFailed(pass, r, "Config error")
                        [] gate = "rate_limited" ->
                             OnFailed(pass, r, "Rate limit exceeded")
                        [] OTHER -> [pass EXCEPT !.pc = "net", !.att = att]
           /\ last' = Obs("attempt", NoRet,
                          IF gate = "dry_run"
                          THEN [att EXCEPT !.resultId =
                                  Some(<<"dry-run-", ToString(now)>>)]
                          ELSE att)
           /\ store' = IF gate = "network" THEN store
                       ELSE StoreAfterIteration(store, pass')
    /\ UNCHANGED <<now, config, localOffset, rateLimiter, delivered, admitted, temp, ingest>>

\* One iteration of the loop up to postToFacebook's first await (or its
\* return or throw, when it makes no request).
Attempt ==
    /\ pass.pc = "loop"
    /\ pass.i <= Len(pass.due)
    /\ LET r == pass.due[pass.i]
           item == pass.objs[r]
           cfg == pass.cfg[1]
           gate == Gate(cfg, now, rateLimiter)
           att == [ref |-> r, itemId |-> item.id, hash |-> Some(item.contentHash),
                   outcome |-> gate, calls |-> <<>>, gateAt |-> now,
                   lastPostAtGate |-> rateLimiter, resultId |-> Null,
                   created |-> Null, requests |-> <<>>, session |-> Null]
       IN  /\ pass' = CASE gate = "dry_run" ->
                             OnPosted(pass, r, <<"dry-run-", ToString(now)>>)
                        [] gate = "config_error" -> OnFailed(pass, r, "Config error")
                        [] gate = "rate_limited" ->
                             OnFailed(pass, r, "Rate limit exceeded")
                        [] OTHER -> [pass EXCEPT !.pc = "net", !.att = att]
           /\ last' = Obs("attempt", NoRet,
                          IF gate = "dry_run"
                          THEN [att EXCEPT !.resultId =
                                  Some(<<"dry-run-", ToString(now)>>)]
                          ELSE att)
           /\ store' = IF gate = "network" THEN store
                       ELSE StoreAfterIteration(store, pass')
    /\ UNCHANGED <<now, config, localOffset, rateLimiter, delivered, admitted, temp, ingest>>

\* NetDone as it would be if updateRateLimit() ran after a failed request too
NetDone_AlwaysUpdates(failAt) ==
    /\ pass.pc = "net"
    /\ \E uploadSessionId \in
           IF pass.objs[pass.att.ref].mediaType = "video"
              /\ MediaExists(pass.objs[pass.att.ref], pass.cfg[1])
           THEN SessionIds ELSE {""} :
       LET r == pass.att.ref
           item == pass.objs[r]
           calls == NetworkCalls(item, pass.cfg[1])
           made == IF failAt = 0 THEN calls ELSE SubSeq(calls, 1, failAt)
           \* the requests to the platform among made
           sent == Len(made) - (Len(calls) - Len(PublishCalls(item, pass.cfg[1])))
           requests == IF sent <= 0 THEN <<>>
                       ELSE SubSeq(PublishRequests(item, pass.cfg[1], uploadSessionId),
                                   1, sent)
           \* start returned without an error
           session == IF uploadSessionId # "" /\ (failAt = 0 \/ sent > 1)
                      THEN Some(uploadSessionId) ELSE Null
           resultId == <<"fb-", ToString(Len(delivered) + 1)>>
           outcome == IF failAt = 0 THEN "delivered"
                      ELSE IF calls[failAt] \in {"getFile", "download"}
                      THEN "download_failed" ELSE "platform_error"
           \* downloadTelegramFile returned: it wrote localPath
           downloaded == HasTelegramFile(item, pass.cfg[1])
                         /\ outcome # "download_failed"
           tempFilePath == IF downloaded
                           THEN Some(LocalPath(now, item.telegramFileId[1]))
                           ELSE Null
           written == IF downloaded THEN temp \cup {tempFilePath[1]} ELSE temp
           att == [pass.att EXCEPT !.calls = made, !.outcome = outcome,
                                   !.resultId = IF failAt = 0 THEN Some(resultId)
                                                ELSE Null,
                                   !.created = tempFilePath,
                                   !.requests = requests,
                                   !.session = session]
       IN  /\ failAt \in 0..Len(calls)
           /\ IF failAt = 0
              THEN /\ rateLimiter' = now
                   /\ delivered' = Append(delivered, item.contentHash)
                   /\ pass' = OnPosted(pass, r, resultId)
              ELSE /\ pass' = OnFailed(pass, r,
                                IF outcome = "download_failed"
                                THEN "Telegram download failed" ELSE "Platform error")
                   /\ rateLimiter' = now
                   /\ UNCHANGED delivered
           \* finally { if (tempFilePath) cleanupTempFile(tempFilePath) }
           /\ temp' = IF tempFilePath # Null
                      THEN cleanupTempFile(tempFilePath, written)
                      ELSE written
           /\ last' = Obs("netDone", NoRet, att)
           /\ store' = StoreAfterIteration(store, pass')
    /\ UNCHANGED <<now, config, localOffset, admitted, ingest>>

\* The rest of postToFacebook: the requests, of which the failAt-th fails
\* (0: none does), then updateRateLimit() and the processor's bookkeeping.
NetDone(failAt) ==
    /\ pass.pc = "net"
    /\ \E uploadSessionId \in
           IF pass.objs[pass.att.ref].mediaType = "video"
              /\ MediaExists(pass.objs[pass.att.ref], pass.cfg[1])
           THEN SessionIds ELSE {""} :
       LET r == pass.att.ref
           item == pass.objs[r]
           calls == NetworkCalls(item, pass.cfg[1])
           made == IF failAt = 0 THEN calls ELSE SubSeq(calls, 1, failAt)
           \* the requests to the platform among made
           sent == Len(made) - (Len(calls) - Len(PublishCalls(item, pass.cfg[1])))
           requests == IF sent <= 0 THEN <<>>
                       ELSE SubSeq(PublishRequests(item, pass.cfg[1], uploadSessionId),
                                   1, sent)
           \* start returned without an error
           session == IF uploadSessionId # "" /\ (failAt = 0 \/ sent > 1)
                      THEN Some(uploadSessionId) ELSE Null
           resultId == <<"fb-", ToString(Len(delivered) + 1)>>
           outcome == IF failAt = 0 THEN "delivered"
                      ELSE IF calls[failAt] \in {"getFile", "download"}
                      THEN "download_failed" ELSE "platform_error"
           \* downloadTelegramFile returned: it wrote localPath
           downloaded == HasTelegramFile(item, pass.cfg[1])
                         /\ outcome # "download_failed"
           tempFilePath == IF downloaded
                           THEN Some(LocalPath(now, item.telegramFileId[1]))
                           ELSE Null
           written == IF downloaded THEN temp \cup {tempFilePath[1]} ELSE temp
           att == [pass.att EXCEPT !.calls = made, !.outcome = outcome,
                                   !.resultId = IF failAt = 0 THEN Some(resultId)
                                                ELSE Null,
                                   !.created = tempFilePath,
                                   !.requests = requests,
                                   !.session = session]
       IN  /\ failAt \in 0..Len(calls)
           /\ IF failAt = 0
              THEN /\ rateLimiter' = now
                   /\ delivered' = Append(delivered, item.contentHash)
                   /\ pass' = OnPosted(pass, r, resultId)
              ELSE /\ pass' = OnFailed(pass, r,
                                IF outcome = "download_failed"
                                THEN "Telegram download failed" ELSE "Platform error")
                   /\ UNCHANGED <<rateLimiter, delivered>>
           \* finally { if (tempFilePath) cleanupTempFile(tempFilePath) }
           /\ temp' = IF tempFilePath # Null
                      THEN cleanupTempFile(tempFilePath, written)
                      ELSE written
           /\ last' = Obs("netDone", NoRet, att)
           /\ store' = StoreAfterIteration(store, pass')
    /\ UNCHANGED <<now, config, localOffset, admitted, ingest>>

\* The end of the pass: saveQueue(queue)
ProcessEnd ==
    /\ pass.pc = "loop"
    /\ pass.i > Len(pass.due)
    /\ store' = saveQueue(PassQueue(pass, store))
    /\ pass' = IdlePass
    /\ last' = NoObs
    /\ UNCHANGED <<now, config, localOffset, rateLimiter, delivered, admitted, temp, ingest>>

\* The process dies in mid-pass: what it held in memory is gone, queue.json
\* is as it was, and the next pass runs in a new process.
Crash ==
    /\ pass.pc # "idle"
    /\ pass' = IdlePass
    /\ rateLimiter' = 0
    /\ last' = Obs("crash", NoRet, NoAttempt)
    /\ UNCHANGED <<store, now, config, localOffset, delivered, admitted, temp, ingest>>

---------------------------------------------------------------------------
(* The environment's steps *)

\* time passes
Tick ==
    /\ \E t \in ClockReadings : t > now /\ now' = t
    /\ last' = NoObs
    /\ UNCHANGED <<store, config, localOffset, rateLimiter, pass, delivered, admitted, temp, ingest>>

---------------------------------------------------------------------------
(* Single process, operations run one at a time *)

Init ==
    /\ store = [exists |-> FALSE, doc |-> EmptyQueue]
    /\ now = T0
    /\ config \in Configs
    /\ localOffset \in LocalOffsets
    /\ rateLimiter = 0
    /\ pass = IdlePass
    /\ last = NoObs
    /\ delivered = <<>>
    /\ admitted = <<>>
    /\ temp = {}
    /\ ingest = IdleIngest

Idle == pass.pc = "idle"

\* the steps of a behaviour in which addToQueue is called, with one of
\* contents, while fewer than maxItems items have been admitted
Step(maxItems, contents) ==
    \/ \E c \in contents : Idle /\ Len(admitted) < maxItems /\ AddToQueue(c)
    \/ Idle /\ SchedulePosts
    \/ \E fresh \in BOOLEAN : ProcessStart(fresh)
    \/ Attempt
    \/ \E failAt \in 0..5 : NetDone(failAt)
    \/ ProcessEnd
    \/ Tick

Next == Step(MaxItems, Contents)

Spec == Init /\ [][Next]_vars

---------------------------------------------------------------------------
(* A queue with a long history: the store after n items, one a minute from *)
(* 1970-01-01 00:01, were ingested and posted by dry-run passes.           *)

\* the decimal digits of k, one token each
RECURSIVE Digits(_)
Digits(k) ==
    IF k < 10 THEN <<ToString(k)>> ELSE Append(Digits(k \div 10), ToString(k % 10))

\* the k-th item of the history, as the pass that posted it left it
HistItem(k) ==
    LET content == [text |-> Str(<<"post">> \o Digits(k)), mediaType |-> Null,
                    mediaUrl |-> Null, telegramFileId |-> Null]
        t == k * MinuteMs
        item == NewItem(content,
                        generateContentHash(content.text.v, content.mediaType), t)
    IN  [item EXCEPT !.scheduledFor = Some(t),
                     !.status = "posted",
                     !.postedAt = Some(t + 1),
                     !.facebookPostId = Some(<<"dry-run-", ToString(t + 1)>>)]

\* queue after the items lo..hi of the history were posted, one after the
\* other (halving keeps the evaluation shallow)
RECURSIVE PostHistory(_, _, _)
PostHistory(queue, lo, hi) ==
    IF lo > hi THEN queue
    ELSE IF lo = hi
    THEN [queue EXCEPT !.posted = Append(@, HistItem(lo)),
                       !.postedHashes = RecordHash(@, HistItem(lo).contentHash)]
    ELSE LET mid == (lo + hi) \div 2
             left == PostHistory(queue, lo, mid)
         IN  IF Len(left.posted) = mid    \* (evaluates left before going on)
             THEN PostHistory(left, mid + 1, hi)
             ELSE queue

\* the queue after the first n items of the history were posted
History(n) == PostHistory(EmptyQueue, 1, n)

\* lengths of history that put postedHashes one below and at its capacity
HistLengths == {MaxPostedHashes - 1, MaxPostedHashes}

InitHist ==
    /\ store \in {saveQueue(History(n)) : n \in HistLengths}
    /\ now = T0 + MinInterval - 1
    /\ config \in {c \in Configs : c.fbValid /\ ~c.dry_run}
    /\ localOffset \in LocalOffsets
    /\ rateLimiter = 0
    /\ pass = IdlePass
    /\ last = NoObs
    /\ delivered = <<>>
    /\ admitted = <<>>
    /\ temp = {}
    /\ ingest = IdleIngest

NextHist == Step(MaxHistItems, Contents)

SpecHist == InitHist /\ [][NextHist]_vars

---------------------------------------------------------------------------
(* Every kind of media, a valid configuration, dry-run off *)

InitMedia ==
    /\ store = [exists |-> FALSE, doc |-> EmptyQueue]
    /\ now = T0
    /\ config \in {c \in Configs : c.fbValid /\ ~c.dry_run}
    /\ localOffset \in LocalOffsets
    /\ rateLimiter = 0
    /\ pass = IdlePass
    /\ last = NoObs
    /\ delivered = <<>>
    /\ admitted = <<>>
    /\ temp = {}
    /\ ingest = IdleIngest

NextMedia == Step(MaxMediaItems, MediaContents)

SpecMedia == InitMedia /\ [][NextMedia]_vars

---------------------------------------------------------------------------
(* Passes that may die before their save *)

NextCrash ==
    \/ Step(MaxCrashItems, Contents)
    \/ Len(delivered) < MaxDeliveries /\ Crash

SpecCrash == InitMedia /\ [][NextCrash]_vars

---------------------------------------------------------------------------
(* Two processes: one runs addToQueue calls, the other processor passes *)

\* the contents ingested while passes run: a text post due at once and an
\* image post due at its slot
ConcContents ==
    { [text |-> Str(<<"hello", "#now">>), mediaType |-> Null,
       mediaUrl |-> Null, telegramFileId |-> Null],
      [text |-> Str(<<"world">>), mediaType |-> Some("image"),
       mediaUrl |-> Some("url"), telegramFileId |-> Null] }

\* the state after one addToQueue({text: "hello #now"}) on an empty queue
InitConc ==
    LET content == [text |-> Str(<<"hello", "#now">>), mediaType |-> Null,
                    mediaUrl |-> Null, telegramFileId |-> Null]
        item == NewItem(content,
                        generateContentHash(content.text.v, content.mediaType), T0)
        saved == saveQueue([EmptyQueue EXCEPT !.pending = <<item>>])
    IN  /\ now = T0
        /\ config \in {c \in Configs : c.fbValid /\ ~c.dry_run}
        /\ localOffset \in LocalOffsets
        /\ store = schedulePosts(saved, config, now, localOffset)
        /\ admitted = <<item>>
        /\ rateLimiter = 0
        /\ pass = IdlePass
        /\ last = NoObs
        /\ delivered = <<>>
        /\ temp = {}
        /\ ingest = IdleIngest

NextConc ==
    \/ \E c \in ConcContents :
          Len(admitted) < 1 + MaxConcItems /\ IngestLoad(c)
    \/ IngestSave
    \/ IngestScheduleLoad
    \/ IngestScheduleSave
    \/ ProcessStart(TRUE)
    \/ Attempt
    \/ \E failAt \in 0..1 : NetDone(failAt)
    \/ ProcessEnd
    \/ Tick

SpecConc == InitConc /\ [][NextConc]_vars

---------------------------------------------------------------------------
(* Ingestion alone, over well-formed and malformed contents *)

NextInput ==
    \/ \E c \in InputContents : Len(admitted) < MaxInputItems /\ AddToQueue(c)
    \/ SchedulePosts
    \/ Tick

SpecInput == Init /\ [][NextInput]_vars

---------------------------------------------------------------------------
(* Recurring passes, each the "process" command of a new process, with a   *)
(* valid configuration, dry-run off, and a platform that accepts every     *)
(* request.  A pass that has started runs to its end.                      *)

NextLive ==
    \/ \E c \in Contents : Idle /\ Len(admitted) < MaxLiveItems /\ AddToQueue(c)
    \/ ProcessStart(TRUE)
    \/ Attempt
    \/ NetDone(0)
    \/ ProcessEnd
    \/ Tick

Recurring ==
    /\ WF_vars(ProcessStart(TRUE))
    /\ WF_vars(Attempt)
    /\ WF_vars(NetDone(0))
    /\ WF_vars(ProcessEnd)

SpecLive == InitMedia /\ [][NextLive]_vars /\ Recurring

---------------------------------------------------------------------------
(* getNextScheduleTime on its own, over clock readings, slot lists and zones *)

\* times of day (ms after midnight) around the slots and around midnight
WallTimes ==
    { 0, 8 * HourMs, 9 * HourMs - 1, 9 * HourMs, 9 * HourMs + 30 * 1000,
      9 * HourMs + MinuteMs, 10 * HourMs, 18 * HourMs - MinuteMs, 18 * HourMs,
      19 * HourMs, DayMs - 1 }

\* UTC offsets of the process's zone: New York, UTC, Bangkok
SchedLocalOffsets == {0 - 5 * HourMs, 0, BangkokOffset}

\* configurations that differ in schedule.post_times and schedule.timezone
SchedConfigs ==
    [ dry_run : {FALSE},
      fbValid : {TRUE},
      bot_token : {TRUE},
      post_times : { << <<9, 0>>, <<18, 0>> >>, << <<18, 0>>, <<9, 0>> >>,
                     << <<9, 0>> >>, << <<0, 0>>, <<12, 30>>, <<9, 1>> >> },
      posts_per_day : {Null},
      tzOffset : {0, BangkokOffset} ]

\* the clock reads one of WallTimes in the configured zone, on 1970-01-02
InitSched ==
    /\ config \in SchedConfigs
    /\ now \in {DayMs + w - config.tzOffset : w \in WallTimes}
    /\ localOffset \in SchedLocalOffsets
    /\ store = [exists |-> FALSE, doc |-> EmptyQueue]
    /\ rateLimiter = 0
    /\ pass = IdlePass
    /\ last = NoObs
    /\ delivered = <<>>
    /\ admitted = <<>>
    /\ temp = {}
    /\ ingest = IdleIngest

\* a call of getNextScheduleTime(config)
GetNextScheduleTime ==
    /\ last' = Obs("getNextScheduleTime",
                   [NoRet EXCEPT !.value =
                      Some(getNextScheduleTime(config, now, localOffset))],
                   NoAttempt)
    /\ UNCHANGED <<store, now, config, localOffset, rateLimiter, pass, delivered,
                   admitted, temp, ingest>>

NextSched == GetNextScheduleTime

SpecSched == InitSched /\ [][NextSched]_vars

---------------------------------------------------------------------------
(* saveQueue and loadQueue on their own, over the text of queue.json *)

\* the sequences over S of length n at most
SeqsUpTo(S, n) == UNION {[1..k -> S] : k \in 0..n}

\* contents without and with media
StoreContents ==
    { [text |-> Str(<<"hello", "#now">>), mediaType |-> Null,
       mediaUrl |-> Null, telegramFileId |-> Null],
      [text |-> Str(<<"world">>), mediaType |-> Some("image"),
       mediaUrl |-> Some("file_id"), telegramFileId |-> Some("file_id")] }

\* an item of pending as the program leaves it: as addToQueue built it at T0,
\* with or without a slot, and marked failed or not
StorePending ==
    { [NewItem(c, generateContentHash(c.text.v, c.mediaType), T0) EXCEPT
          !.scheduledFor = slot, !.status = mark[1], !.error = mark[2]] :
        c \in StoreContents,
        slot \in {Null, Some(T0 + MinInterval)},
        mark \in {<<"pending", Null>>, <<"failed", Some("Platform error")>>} }

\* an item of posted: an item of pending after the bookkeeping of a delivery
StorePosted ==
    { [item EXCEPT !.status = "posted", !.postedAt = Some(T0 + MinInterval),
                   !.facebookPostId = Some(<<"fb-", "1">>)] :
        item \in {i \in StorePending : i.status = "pending"} }

\* the queue objects that are saved: MaxStoreItems items at most
StoreQueues ==
    UNION { { [pending |-> pending, posted |-> posted,
               lastPostTime |-> lastPostTime,
               postedHashes |-> IF recorded
                                THEN [i \in 1..Len(posted) |-> posted[i].contentHash]
                                ELSE <<>>] :
                pending \in [1..n -> StorePending],
                posted \in SeqsUpTo(StorePosted, MaxStoreItems - n),
                lastPostTime \in {Null, Some(T0)},
                recorded \in BOOLEAN } : n \in 0..MaxStoreItems }

\* a process holds a queue object; queue.json is not there yet
InitStore ==
    /\ ingest \in {[IdleIngest EXCEPT !.queue = queue] : queue \in StoreQueues}
    /\ store = [exists |-> FALSE, doc |-> EmptyQueue]
    /\ now = T0
    /\ config \in {c \in Configs : c.fbValid /\ ~c.dry_run}
    /\ localOffset \in LocalOffsets
    /\ rateLimiter = 0
    /\ pass = IdlePass
    /\ last = NoObs
    /\ delivered = <<>>
    /\ admitted = <<>>
    /\ temp = {}

\* saveQueue(queue)
SaveQueue ==
    /\ store' = saveQueueText(ingest.queue)
    /\ last' = Obs("saveQueue", [NoRet EXCEPT !.value = Some(ingest.queue)],
                   NoAttempt)
    /\ UNCHANGED <<now, config, localOffset, rateLimiter, pass, delivered,
                   admitted, temp, ingest>>

\* loadQueue()
LoadQueue ==
    /\ last' = Obs("loadQueue",
                   [NoRet EXCEPT !.value = Some(loadQueueText(store))], NoAttempt)
    /\ UNCHANGED <<store, now, config, localOffset, rateLimiter, pass, delivered,
                   admitted, temp, ingest>>

NextStore ==
    \/ SaveQueue
    \/ LoadQueue

SpecStore == InitStore /\ [][NextStore]_vars

---------------------------------------------------------------------------
(* A queue.json that cannot be read or parsed *)

InitDamaged ==
    /\ store \in {[exists |-> TRUE, doc |-> d] : d \in {Unparseable, Unreadable}}
    /\ now = T0
    /\ config \in Configs
    /\ localOffset \in LocalOffsets
    /\ rateLimiter = 0
    /\ pass = IdlePass
    /\ last = NoObs
    /\ delivered = <<>>
    /\ admitted = <<>>
    /\ temp = {}
    /\ ingest = IdleIngest

NextDamaged == Step(MaxDamagedItems, Contents)

SpecDamaged == InitDamaged /\ [][NextDamaged]_vars

---------------------------------------------------------------------------
(* Every way to publish: each media type with each kind of media reference, *)
(* a valid configuration, dry-run off                                       *)

NextPublish == Step(MaxPublishItems, PublishContents)

SpecPublish == InitMedia /\ [][NextPublish]_vars

---------------------------------------------------------------------------
(* The credentials of config.settings.facebook, present, missing and left  *)
(* at the template's placeholder                                           *)

PageIds == {Null, Some(<<>>), Some(<<"YOUR_", "PAGE_ID">>), Some(<<"1234">>)}

AccessTokens == {Null, Some(<<"YOUR_", "ACCESS_TOKEN">>),
                 Some(<<"x", "YOUR_">>), Some(<<"EAAG">>)}

\* config.json with its credentials; fbValid is what validateConfig makes
\* of them
CredConfigs ==
    { c \in [ dry_run : BOOLEAN,
              fbValid : BOOLEAN,
              bot_token : {TRUE},
              post_times : {<< <<9, 0>>, <<18, 0>> >>},
              posts_per_day : {Null},
              tzOffset : {BangkokOffset},
              page_id : PageIds,
              access_token : AccessTokens ] :
        c.fbValid = (validateConfigErrors(c) = <<>>) }

InitCred ==
    /\ store = [exists |-> FALSE, doc |-> EmptyQueue]
    /\ now = T0
    /\ config \in CredConfigs
    /\ localOffset \in LocalOffsets
    /\ rateLimiter = 0
    /\ pass = IdlePass
    /\ last = NoObs
    /\ delivered = <<>>
    /\ admitted = <<>>
    /\ temp = {}
    /\ ingest = IdleIngest

NextCred == Step(MaxCredItems, Contents)

SpecCred == InitCred /\ [][NextCred]_vars

---------------------------------------------------------------------------
(* The Telegram adapters: processTelegramWebhook (telegram-webhook.js) and   *)
(* processTelegramMessage (telegram-integration.js).  Each call runs in a    *)
(* process of its own (the adapters' CLIs).                                  *)

\* the items the adapters may admit
MaxTelegramItems == 1

\* String.prototype.toLowerCase() of a token, and of a string
LowerToken(tok) ==
    CASE tok = "#SKIP" -> "#skip"
      [] tok = "#Draft" -> "#draft"
      [] tok = "#IGNORE" -> "#ignore"
      [] tok = "Hello" -> "hello"
      [] OTHER -> tok

toLowerCase(str) == [i \in 1..Len(str) |-> LowerToken(str[i])]

skipPatterns == <<"#skip", "#draft", "#ignore">>

\* the skip test as it would be without toLowerCase()
ContainsSkipPattern_CaseSensitive(text) ==
    \E k \in 1..Len(skipPatterns) : skipPatterns[k] \in Range(text)

\* skipPatterns.some(pattern => text.toLowerCase().includes(pattern))
ContainsSkipPattern(text) ==
    \E k \in 1..Len(skipPatterns) : skipPatterns[k] \in Range(toLowerCase(text))

\* The texts and captions of the messages
TelegramTexts ==
    { <<"Hello", "#now">>, <<"hello", "#skip">>, <<"#SKIP", "#now">>,
      <<"#Draft", "world">>, <<"world", "#now", "#IGNORE">> }

\* Telegram message objects: a text message has text and no caption, a photo
\* message has a photo, with or without a caption, and no text; a message of
\* another kind (a sticker, say) has none of the three.
TelegramMessages ==
    { [text |-> Some(t), caption |-> Null, photo |-> FALSE] : t \in TelegramTexts }
    \cup { [text |-> Null, caption |-> Some(t), photo |-> TRUE] : t \in TelegramTexts }
    \cup { [text |-> Null, caption |-> Null, photo |-> p] : p \in BOOLEAN }

\* Telegram updates: without a message, or with a message from a chat that
\* is, or is not, one of config.telegram_sources
TelegramUpdates ==
    { [message |-> Null, allowed |-> FALSE] }
    \cup [message : {Some(m) : m \in TelegramMessages}, allowed : BOOLEAN]

\* message.text || message.caption || ''
MessageText(message) ==
    IF message.text # Null /\ message.text[1] # <<>> THEN message.text[1]
    ELSE IF message.caption # Null /\ message.caption[1] # <<>>
    THEN message.caption[1]
    ELSE <<>>

\* the content object an adapter hands to addToQueue: the largest photo's
\* file_id is both mediaUrl and telegramFileId
MessageContent(message) ==
    [text |-> Str(MessageText(message)),
     mediaType |-> Some(IF message.photo THEN "image" ELSE "text"),
     mediaUrl |-> IF message.photo THEN Some("file_id") ELSE Null,
     telegramFileId |-> IF message.photo THEN Some("file_id") ELSE Null]

\* an adapter returned without calling addToQueue
AdapterReturns(op, reason) ==
    /\ last' = Obs(op, [NoRet EXCEPT !.reason = reason], NoAttempt)
    /\ UNCHANGED <<store, now, config, localOffset, rateLimiter, pass, delivered,
                   admitted, temp, ingest>>

\* const { addToQueue } = require('./index.js'), then addToQueue({...}).
\* exported: the index.js beside the adapter exports its functions, as the
\* one of part_002 does; src/index.js has no module.exports, the name is
\* undefined there and the call throws a TypeError.
CallAddToQueue(op, content, exported) ==
    IF exported THEN AddToQueue(content) ELSE AdapterReturns(op, "TypeError")

\* processTelegramWebhook(update)
ProcessTelegramWebhook(update, exported) ==
    IF update.message = Null
    THEN AdapterReturns("processTelegramWebhook", "no_message")
    ELSE IF ~update.allowed
    THEN AdapterReturns("processTelegramWebhook", "not_allowed")
    ELSE IF ContainsSkipPattern(MessageText(update.message[1]))
    THEN AdapterReturns("processTelegramWebhook", "skipped")
    ELSE CallAddToQueue("processTelegramWebhook",
                        MessageContent(update.message[1]), exported)

\* processTelegramMessage(message, sourceChat)
ProcessTelegramMessage(message, exported) ==
    IF message.text = Null /\ message.caption = Null /\ ~message.photo
    THEN AdapterReturns("processTelegramMessage", "no_content")
    ELSE IF ContainsSkipPattern(MessageText(message))
    THEN AdapterReturns("processTelegramMessage", "skipped")
    ELSE CallAddToQueue("processTelegramMessage", MessageContent(message), exported)

NextTelegram ==
    \/ \E update \in TelegramUpdates, exported \in BOOLEAN :
          Idle /\ Len(admitted) < MaxTelegramItems
               /\ ProcessTelegramWebhook(update, exported)
    \/ \E message \in TelegramMessages, exported \in BOOLEAN :
          Idle /\ Len(admitted) < MaxTelegramItems
               /\ ProcessTelegramMessage(message, exported)
    \/ \E fresh \in BOOLEAN : ProcessStart(fresh)
    \/ Attempt
    \/ \E failAt \in 0..5 : NetDone(failAt)
    \/ ProcessEnd
    \/ Tick

SpecTelegram == Init /\ [][NextTelegram]_vars

---------------------------------------------------------------------------
(* schedulePosts on its own, over queues that hold a backlog of items *)
(* without a slot and items that have one                             *)

\* the pending items of a queue schedulePosts is called on
MaxBacklogItems == 3

\* schedule.posts_per_day: unset, or a number of posts
PostsPerDay == {Null, Some(1), Some(2), Some(3)}

BacklogConfigs ==
    [ dry_run : {FALSE},
      fbValid : {TRUE},
      bot_token : {TRUE},
      post_times : {<< <<9, 0>>, <<18, 0>> >>},
      posts_per_day : PostsPerDay,
      tzOffset : {BangkokOffset} ]

\* the k-th pending item, admitted a minute after the one before it; slot is
\* the scheduledFor an earlier schedulePosts gave it, or Null
BacklogItem(k, slot) ==
    [NewItem([text |-> Str(<<"post", ToString(k)>>), mediaType |-> Null,
              mediaUrl |-> Null, telegramFileId |-> Null],
             generateContentHash(<<"post", ToString(k)>>, Null),
             T0 - DayMs + k * MinuteMs)
       EXCEPT !.scheduledFor = slot]

\* yesterday's slot, and none
BacklogSlots == {Null, Some(T0 - DayMs + MinuteMs)}

BacklogPending ==
    UNION { { [k \in 1..n |-> BacklogItem(k, slots[k])] :
                slots \in [1..n -> BacklogSlots] } : n \in 0..MaxBacklogItems }

\* nothing posted yet, or one item, posted yesterday
BacklogPosted ==
    { <<>>,
      << [BacklogItem(0, Some(T0 - DayMs + MinuteMs)) EXCEPT
            !.status = "posted", !.postedAt = Some(T0 - DayMs + 2 * MinuteMs),
            !.facebookPostId = Some(<<"fb-", "1">>)] >> }

BacklogQueues ==
    { [pending |-> p, posted |-> q, lastPostTime |-> Null,
       postedHashes |-> [k \in 1..Len(q) |-> q[k].contentHash]] :
        p \in BacklogPending, q \in BacklogPosted }

InitBacklog ==
    /\ store \in {saveQueue(queue) : queue \in BacklogQueues}
    /\ now = T0
    /\ config \in BacklogConfigs
    /\ localOffset \in LocalOffsets
    /\ rateLimiter = 0
    /\ pass = IdlePass
    /\ last = NoObs
    /\ delivered = <<>>
    /\ admitted = <<>>
    /\ temp = {}
    /\ ingest = IdleIngest

NextBacklog == SchedulePosts

SpecBacklog == InitBacklog /\ [][NextBacklog]_vars

---------------------------------------------------------------------------
(* Writes of queue.json that fail: fs.writeFileSync throws (a full disk, a *)
(* read-only file).  What the file holds afterwards is one of: what it     *)
(* held before, and a text cut short that no longer parses.                *)

\* the items admitted while writes may fail
MaxWriteItems == 1

\* platform deliveries after which the save that ends a pass no longer fails
MaxWriteDeliveries == 1

\* saveQueue as it would be if it caught the error of the write
WriteFailure_Swallowed(s) ==
    {[thrown |-> FALSE, store |-> x] :
        x \in {s, [exists |-> TRUE, doc |-> Unparseable]}}

\* saveQueue(queue) when the write fails, on the file s: the error leaves
\* saveQueue, and the file is as it was or damaged
WriteFailure(s) ==
    {[thrown |-> TRUE, store |-> x] :
        x \in {s, [exists |-> TRUE, doc |-> Unparseable]}}

\* addToQueue(content) for a content that passes validation and the
\* duplicate test, when a write fails: the save of the queue with the new
\* item (failAtSave = 1) or the save that ends schedulePosts (failAtSave = 2)
AddToQueueWriteFails(content, failAtSave) ==
    LET errors == validateInput(content)
        queue == loadQueue(store)
        contentHash == generateContentHash(content.text.v, content.mediaType)
        item == NewItem(content, contentHash, now)
        saved == saveQueue([queue EXCEPT !.pending = Append(@, item)])
        thrown == Obs("addToQueue", [NoRet EXCEPT !.reason = "thrown"], NoAttempt)
        returned == Obs("addToQueue",
                        [NoRet EXCEPT !.success = TRUE, !.item = Some(item)],
                        NoAttempt)
    IN  /\ errors = <<>>
        /\ ~isDuplicateContent(queue, contentHash)
        /\ IF failAtSave = 1
           THEN \E w \in WriteFailure(store) :
                   /\ store' = IF w.thrown THEN w.store
                               ELSE schedulePosts(w.store, config, now, localOffset)
                   /\ last' = IF w.thrown THEN thrown ELSE returned
                   /\ UNCHANGED admitted
           ELSE \E w \in WriteFailure(saved) :
                   /\ store' = w.store
                   /\ last' = IF w.thrown THEN thrown ELSE returned
                   /\ admitted' = Append(admitted, item)
        /\ UNCHANGED <<now, config, localOffset, rateLimiter, pass, delivered, temp, ingest>>

\* The end of a pass when its saveQueue(queue) fails: the promise of
\* processScheduledPosts is rejected
ProcessEndWriteFails ==
    /\ pass.pc = "loop"
    /\ pass.i > Len(pass.due)
    /\ \E w \in WriteFailure(store) :
          /\ store' = w.store
          /\ last' = Obs("processScheduledPosts",
                         [NoRet EXCEPT !.reason = IF w.thrown THEN "rejected"
                                                  ELSE "fulfilled"],
                         NoAttempt)
    /\ pass' = IdlePass
    /\ UNCHANGED <<now, config, localOffset, rateLimiter, delivered, admitted, temp, ingest>>

NextWrite ==
    \/ Step(MaxWriteItems, Contents)
    \/ \E c \in Contents, failAtSave \in {1, 2} :
          Idle /\ Len(admitted) < MaxWriteItems /\ AddToQueueWriteFails(c, failAtSave)
    \/ Len(delivered) <= MaxWriteDeliveries /\ ProcessEndWriteFails

SpecWrite == Init /\ [][NextWrite]_vars

---------------------------------------------------------------------------
(* Single process, from an empty queue, with each posts_per_day *)

\* the items admitted under the posts_per_day cap
MaxCapItems == 2

InitCap ==
    /\ store = [exists |-> FALSE, doc |-> EmptyQueue]
    /\ now = T0
    /\ config \in BacklogConfigs
    /\ localOffset \in LocalOffsets
    /\ rateLimiter = 0
    /\ pass = IdlePass
    /\ last = NoObs
    /\ delivered = <<>>
    /\ admitted = <<>>
    /\ temp = {}
    /\ ingest = IdleIngest

NextCap == Step(MaxCapItems, Contents)

SpecCap == InitCap /\ [][NextCap]_vars

---------------------------------------------------------------------------
(* Video uploads whose finish response carries no id.  The response to the *)
(* finish request need not have an id field: the upload script of part_002 *)
(* prints finishData.id || videoId, the id of the start response.          *)

\* the items admitted
MaxVideoItems == 1

\* a text post, and video posts with a Telegram file and with a local file
VideoContents ==
    { [text |-> Str(<<"hello", "#now">>), mediaType |-> Null,
       mediaUrl |-> Null, telegramFileId |-> Null],
      [text |-> Str(<<"post", "#now">>), mediaType |-> Some("video"),
       mediaUrl |-> Some("file_id"), telegramFileId |-> Some("file_id")],
      [text |-> Str(<<"post">>), mediaType |-> Some("video"),
       mediaUrl |-> Some("local"), telegramFileId |-> Null] }

\* the try branch after postToFacebook returned a result without id:
\* item.facebookPostId = result.id is undefined, and JSON.stringify leaves
\* the key out
OnPostedWithoutId(p, r) ==
    LET q == OnPosted(p, r, <<>>)
    IN  [q EXCEPT !.objs[r].facebookPostId = Null,
                  !.posted[Len(q.posted)].facebookPostId = Null]

\* The rest of postToFacebook for a video with a local file, when no request
\* fails and the finish response, which postVideoToFacebook returns, has no
\* id
NetDoneWithoutId ==
    /\ pass.pc = "net"
    /\ pass.objs[pass.att.ref].mediaType = "video"
    /\ MediaExists(pass.objs[pass.att.ref], pass.cfg[1])
    /\ \E uploadSessionId \in SessionIds :
       LET r == pass.att.ref
           item == pass.objs[r]
           calls == NetworkCalls(item, pass.cfg[1])
           requests == PublishRequests(item, pass.cfg[1], uploadSessionId)
           \* downloadTelegramFile returned: it wrote localPath
           downloaded == HasTelegramFile(item, pass.cfg[1])
           tempFilePath == IF downloaded
                           THEN Some(LocalPath(now, item.telegramFileId[1]))
                           ELSE Null
           written == IF downloaded THEN temp \cup {tempFilePath[1]} ELSE temp
           att == [pass.att EXCEPT !.calls = calls, !.outcome = "delivered",
                                   !.resultId = Null,
                                   !.created = tempFilePath,
                                   !.requests = requests,
                                   !.session = Some(uploadSessionId)]
       IN  /\ rateLimiter' = now
           /\ delivered' = Append(delivered, item.contentHash)
           /\ pass' = OnPostedWithoutId(pass, r)
           \* finally { if (tempFilePath) cleanupTempFile(tempFilePath) }
           /\ temp' = IF tempFilePath # Null
                      THEN cleanupTempFile(tempFilePath, written)
                      ELSE written
           /\ last' = Obs("netDone", NoRet, att)
           /\ store' = StoreAfterIteration(store, pass')
    /\ UNCHANGED <<now, config, localOffset, admitted, ingest>>

NextVideoId ==
    \/ Step(MaxVideoItems, VideoContents)
    \/ NetDoneWithoutId

SpecVideoId == InitMedia /\ [][NextVideoId]_vars

---------------------------------------------------------------------------
(* Dry-run first, then the operator turns dry-run off in config.json *)

\* the items admitted
MaxDryItems == 2

\* config.json is edited between two operations: dry_run is set to false
\* (loadConfig reads the file at every call)
EditConfig ==
    /\ Idle
    /\ config.dry_run
    /\ config' = [config EXCEPT !.dry_run = FALSE]
    /\ last' = NoObs
    /\ UNCHANGED <<store, now, localOffset, rateLimiter, pass, delivered, admitted,
                   temp, ingest>>

InitDry ==
    /\ store = [exists |-> FALSE, doc |-> EmptyQueue]
    /\ now = T0
    /\ config \in {c \in Configs : c.fbValid /\ c.dry_run}
    /\ localOffset \in LocalOffsets
    /\ rateLimiter = 0
    /\ pass = IdlePass
    /\ last = NoObs
    /\ delivered = <<>>
    /\ admitted = <<>>
    /\ temp = {}
    /\ ingest = IdleIngest

NextDry ==
    \/ Step(MaxDryItems, Contents)
    \/ EditConfig

SpecDry == InitDry /\ [][NextDry]_vars

---------------------------------------------------------------------------
(* Two processor passes in two processes, for instance a cron-triggered    *)
(* pass that starts while the one before it awaits the network.  The pass  *)
(* of this process runs step by step as before; the pass of the other      *)
(* process has its own copy of the queue and its own rate-limiter clock,   *)
(* held in ingest, and each of its attempts is one step.                   *)

\* platform deliveries after which no new pass starts
MaxOverlapDeliveries == 2

\* what processScheduledPosts holds when it enters its loop, having read cfg
\* and the file s at clock reading t
LoadPass(s, cfg, t) ==
    LET queue == loadQueue(s)
        refs == [r \in 1..Len(queue.pending) |-> r]
    IN  [pc |-> "loop", cfg |-> Some(cfg), nowIso |-> t,
         objs |-> queue.pending, pending |-> refs,
         posted |-> queue.posted, postedHashes |-> queue.postedHashes,
         due |-> SelectSeq(refs, LAMBDA r : IsDue(queue.pending[r], t)),
         i |-> 1, done |-> <<>>, att |-> NoAttempt]

\* processScheduledPosts() up to its loop, in the other process
OtherProcessStart ==
    /\ ingest.pc = "idle"
    /\ ingest' = [pc |-> "pass", p |-> LoadPass(store, config, now),
                  lastPostTime |-> 0]
    /\ last' = NoObs
    /\ UNCHANGED <<store, now, config, localOffset, rateLimiter, pass, delivered,
                   admitted, temp>>

\* One iteration of the loop in the other process: postToFacebook with its
\* gates, its requests, which all succeed (ok) or of which one fails, and the
\* bookkeeping.  A scratch file it writes is removed before it ends.
OtherAttempt(ok) ==
    /\ ingest.pc = "pass"
    /\ ingest.p.i <= Len(ingest.p.due)
    /\ LET p == ingest.p
           r == p.due[p.i]
           gate == Gate(p.cfg[1], now, ingest.lastPostTime)
           resultId == <<"fb-", ToString(Len(delivered) + 1)>>
       IN  IF gate = "network" /\ ok
           THEN /\ ingest' = [ingest EXCEPT !.p = OnPosted(p, r, resultId),
                                            !.lastPostTime = now]
                /\ delivered' = Append(delivered, p.objs[r].contentHash)
           ELSE /\ ingest' = [ingest EXCEPT !.p =
                     CASE gate = "dry_run" ->
                            OnPosted(p, r, <<"dry-run-", ToString(now)>>)
                       [] gate = "config_error" -> OnFailed(p, r, "Config error")
                       [] gate = "rate_limited" ->
                            OnFailed(p, r, "Rate limit exceeded")
                       [] OTHER -> OnFailed(p, r, "Platform error")]
                /\ UNCHANGED delivered
    /\ last' = NoObs
    /\ UNCHANGED <<store, now, config, localOffset, rateLimiter, pass, admitted, temp>>

\* The end of the pass in the other process: saveQueue(queue)
OtherProcessEnd ==
    /\ ingest.pc = "pass"
    /\ ingest.p.i > Len(ingest.p.due)
    /\ store' = saveQueue(PassQueue(ingest.p, store))
    /\ ingest' = IdleIngest
    /\ last' = NoObs
    /\ UNCHANGED <<now, config, localOffset, rateLimiter, pass, delivered, admitted, temp>>

NextOverlap ==
    \/ Len(delivered) < MaxOverlapDeliveries /\ ProcessStart(TRUE)
    \/ Attempt
    \/ \E failAt \in 0..1 : NetDone(failAt)
    \/ ProcessEnd
    \/ Len(delivered) < MaxOverlapDeliveries /\ OtherProcessStart
    \/ \E ok \in BOOLEAN : OtherAttempt(ok)
    \/ OtherProcessEnd
    \/ Tick

SpecOverlap == InitConc /\ [][NextOverlap]_vars

---------------------------------------------------------------------------
(* Properties *)

PendingIds == {Persisted.pending[i].id : i \in 1..Len(Persisted.pending)}

PostedIds == {Persisted.posted[i].id : i \in 1..Len(Persisted.posted)}

\* C1: in every persisted queue no item id occurs in both pending and
\* posted, and no item of pending has status 'posted'.
C1_PendingPostedDisjoint ==
    /\ PendingIds \cap PostedIds = {}
    /\ \A i \in 1..Len(Persisted.pending) : Persisted.pending[i].status # "posted"

\* C2: every item's id is unique within pending and posted together.
C2_IdsUnique ==
    LET all == Persisted.pending \o Persisted.posted
    IN  \A i, j \in 1..Len(all) : all[i].id = all[j].id => i = j

\* the number of items of a sequence that are the admitted item a
Occurrences(items, a) ==
    Cardinality({i \in 1..Len(items) :
                    /\ items[i].id = a.id
                    /\ items[i].contentHash = a.contentHash
                    /\ items[i].addedAt = a.addedAt})

\* C3: after every completed operation, every admitted item is in exactly
\* one of pending and posted (and nothing else is there).
C3_ExactlyOnePlace ==
    Idle =>
        /\ Len(Persisted.pending) + Len(Persisted.posted) = Len(admitted)
        /\ \A k \in 1..Len(admitted) :
              Occurrences(Persisted.pending, admitted[k])
                + Occurrences(Persisted.posted, admitted[k])
              = Occurrences(admitted, admitted[k])

\* C4: addToQueue of content whose hash is in postedHashes returns
\* success = false with reason 'duplicate' and leaves queue.json as it was.
C4_DuplicateRejected ==
    [][\A c \in Contents :
         (/\ AddToQueue(c)
          /\ \E i \in 1..Len(Persisted.postedHashes) :
                Persisted.postedHashes[i]
                  = generateContentHash(c.text.v, c.mediaType))
         => /\ last'.ret.success = FALSE
            /\ last'.ret.reason = "duplicate"
            /\ last'.ret.errors = <<>>
            /\ store' = store]_vars

C4_Witness ==
    /\ last.op = "addToQueue"
    /\ last.ret.reason = "duplicate"
    /\ Persisted.pending = <<>>
    /\ Len(Persisted.posted) = 1

\* C5: addToQueue of valid content identical to an item still in pending,
\* its hash not in postedHashes, is admitted: it returns success = true and
\* both items are in pending.
C5_PendingNotDeduplicated ==
    [][\A c \in Contents :
         LET h == generateContentHash(c.text.v, c.mediaType)
             twins == {i \in 1..Len(Persisted.pending) :
                         /\ Persisted.pending[i].text = c.text.v
                         /\ Persisted.pending[i].mediaType
                              = OrElse(c.mediaType, "text")}
         IN  (/\ AddToQueue(c)
              /\ validateInput(c) = <<>>
              /\ twins # {}
              /\ \A i \in 1..Len(Persisted.postedHashes) :
                    Persisted.postedHashes[i] # h)
             => /\ last'.ret.success = TRUE
                /\ Len(Persisted'.pending) = Len(Persisted.pending) + 1
                /\ Persisted'.pending[Len(Persisted'.pending)].contentHash = h
                /\ \A i \in twins :
                      /\ Persisted'.pending[i].id = Persisted.pending[i].id
                      /\ Persisted'.pending[i].contentHash = h]_vars

C5_Witness ==
    /\ last.op = "addToQueue"
    /\ last.ret.success
    /\ Len(Persisted.pending) = 2
    /\ Persisted.pending[1].contentHash = Persisted.pending[2].contentHash
    /\ Persisted.pending[1].text = Persisted.pending[2].text
    /\ Persisted.postedHashes = <<>>

\* C6: no two successful deliveries to the platform carry the same content
\* hash.
C6_NoContentDeliveredTwice ==
    \A i, j \in 1..Len(delivered) : delivered[i] = delivered[j] => i = j

\* C7: with dry-run off and a valid config, an attempt whose gate check is
\* less than 60000 ms after the last successful delivery is rejected with
\* the rate-limit error before any request; at 60000 ms or more it passes
\* the gate.
C7_RateLimitBoundary ==
    [][(Attempt /\ ~pass.cfg[1].dry_run /\ validateConfig(pass.cfg[1]))
        => LET r == pass.due[pass.i]
           IN  IF now - rateLimiter < MinInterval
               THEN /\ last'.att.outcome = "rate_limited"
                    /\ last'.att.calls = <<>>
                    /\ pass'.pc = "loop"
                    /\ pass'.objs[r].status = "failed"
                    /\ pass'.objs[r].error = Some("Rate limit exceeded")
                    /\ pass'.posted = pass.posted
                    /\ delivered' = delivered
               ELSE /\ pass'.pc = "net"
                    /\ pass'.att.ref = r
                    /\ pass'.objs = pass.objs]_vars

\* two due items in one pass, the first rejected 59999 ms after the last
\* delivery, the second past the gate at 60000 ms exactly
C7_Witness ==
    /\ pass.pc = "net"
    /\ rateLimiter # 0
    /\ pass.att.gateAt - pass.att.lastPostAtGate = MinInterval
    /\ \E r \in 1..Len(pass.objs) :
          pass.objs[r].error = Some("Rate limit exceeded")

\* C10: with dry_run = true an attempt makes no request, skips config
\* validation and the rate-limit gate, returns an id prefixed 'dry-run-',
\* and the item moves to posted with that id.
C10_DryRunIsolation ==
    [][(Attempt /\ pass.cfg[1].dry_run)
        => LET r == pass.due[pass.i]
               id == <<"dry-run-", ToString(now)>>
           IN  /\ last'.att.outcome = "dry_run"
               /\ last'.att.calls = <<>>
               /\ last'.att.resultId = Some(id)
               /\ pass'.pc = "loop"
               /\ delivered' = delivered
               /\ rateLimiter' = rateLimiter
               /\ Len(pass'.posted) = Len(pass.posted) + 1
               /\ pass'.posted[Len(pass'.posted)].id = pass.objs[r].id
               /\ pass'.posted[Len(pass'.posted)].status = "posted"
               /\ pass'.posted[Len(pass'.posted)].facebookPostId = Some(id)
               /\ \A k \in 1..Len(pass'.pending) : pass'.pending[k] # r]_vars

\* a dry-run item posted although the config is invalid, persisted
C10_Witness ==
    /\ Idle
    /\ ~config.fbValid
    /\ config.dry_run
    /\ \E k \in 1..Len(Persisted.posted) :
          /\ Persisted.posted[k].status = "posted"
          /\ Persisted.posted[k].facebookPostId # Null
          /\ Persisted.posted[k].facebookPostId[1][1] = "dry-run-"

\* postedHashes holds at most 1000 entries, in queue.json and in a pass's memory
C8_WithinCapacity ==
    /\ Len(Persisted.postedHashes) <= MaxPostedHashes
    /\ Len(pass.postedHashes) <= MaxPostedHashes

\* a posting step that pushes onto a full list shifts its oldest entry out
C8_EvictsOldest ==
    (/\ pass'.posted # pass.posted
     /\ pass.pc # "idle"
     /\ pass'.pc # "idle"
     /\ Len(pass.postedHashes) = MaxPostedHashes
     /\ ~Includes(pass.postedHashes, pass.objs[pass.due[pass.i]].contentHash))
    => pass'.postedHashes
         = Append(Tail(pass.postedHashes), pass.objs[pass.due[pass.i]].contentHash)

\* C8: postedHashes never holds more than 1000 entries in any state a
\* processor pass produces, and a push that would exceed the capacity evicts
\* the oldest entry.
C8_BoundedHashes == []C8_WithinCapacity /\ [][C8_EvictsOldest]_vars

\* a full list whose oldest entry, the first of the history, has gone
C8_Witness ==
    /\ Idle
    /\ Len(Persisted.postedHashes) = MaxPostedHashes
    /\ Len(admitted) > 0
    /\ Persisted.postedHashes[MaxPostedHashes] = admitted[1].contentHash
    /\ Persisted.postedHashes[1] # HistItem(1).contentHash

\* C9: once more than 1000 items have been posted, postedHashes has exactly
\* 1000 entries, the hashes of the 1000 most recently posted items, oldest
\* first.
C9_LastThousand ==
    LET n == Len(Persisted.posted)
    IN  n > MaxPostedHashes =>
          /\ Len(Persisted.postedHashes) = MaxPostedHashes
          /\ \A i \in 1..MaxPostedHashes :
                Persisted.postedHashes[i]
                  = Persisted.posted[n - MaxPostedHashes + i].contentHash

\* C11: when an attempt that reached the media-fetch stage has concluded,
\* in success, in a download failure or in a platform error at any publish
\* phase, no scratch file it created is in the temp directory.
C11_ScratchFileRemoved ==
    [][(pass.pc = "net" /\ pass'.pc # "net"
        /\ HasTelegramFile(pass.objs[pass.att.ref], pass.cfg[1]))
       => /\ last'.att.outcome \in {"delivered", "download_failed", "platform_error"}
          /\ last'.att.created # Null => last'.att.created[1] \notin temp'
          /\ last'.att.outcome # "download_failed" => last'.att.created # Null
          /\ temp' = temp]_vars

\* a video attempt that downloaded its file and failed at the finish phase
C11_Witness ==
    /\ last.op = "netDone"
    /\ last.att.outcome = "platform_error"
    /\ last.att.calls = <<"getFile", "download", "videos:start",
                          "videos:transfer", "videos:finish">>
    /\ last.att.created # Null
    /\ temp = {}
    /\ ingest = IdleIngest

\* the configured slots strictly later than minute-of-day tod, by position
LaterSlots(times, tod) == {i \in 1..Len(times) : SlotMinutes(times[i]) > tod}

\* the least element of a non-empty set of numbers
Least(S) == CHOOSE x \in S : \A y \in S : x <= y

\* C12: getNextScheduleTime returns the first slot, in configured order,
\* whose time of day is strictly later than the current time of day (to the
\* minute) in the configured zone, dated today, and post_times[0] dated
\* tomorrow when no slot is later.  The returned timestamp is read as the
\* process's zone reads it, which is how the code builds it.
C12_NextSlot ==
    last.op = "getNextScheduleTime" =>
        LET times == config.post_times
            wall == now + config.tzOffset
            tod == (wall \div MinuteMs) % (24 * 60)
            today == (wall \div DayMs) * DayMs
            later == LaterSlots(times, tod)
            returned == last.ret.value[1] + localOffset
        IN  /\ later # {} =>
                 returned = today + SlotMinutes(times[Least(later)]) * MinuteMs
            /\ later = {} =>
                 returned = today + DayMs + SlotMinutes(times[1]) * MinuteMs

\* the examples with ["09:00","18:00"]: 08:00, 10:00, 19:00 and 09:00 sharp
C12_Examples ==
    (/\ last.op = "getNextScheduleTime"
     /\ config.post_times = << <<9, 0>>, <<18, 0>> >>)
    => LET wall == now + config.tzOffset
           returned == last.ret.value[1] + localOffset
       IN  /\ wall = DayMs + 8 * HourMs => returned = DayMs + 9 * HourMs
           /\ wall = DayMs + 10 * HourMs => returned = DayMs + 18 * HourMs
           /\ wall = DayMs + 19 * HourMs => returned = 2 * DayMs + 9 * HourMs
           /\ wall = DayMs + 9 * HourMs => returned = DayMs + 18 * HourMs

C12_FirstLaterSlot == C12_NextSlot /\ C12_Examples

\* at 09:00 sharp in the configured zone the answer is 18:00 today
C12_Witness ==
    /\ last.op = "getNextScheduleTime"
    /\ config.post_times = << <<9, 0>>, <<18, 0>> >>
    /\ now + config.tzOffset = DayMs + 9 * HourMs
    /\ last.ret.value = Some(DayMs + 18 * HourMs - localOffset)

\* the item is due at the instant t: its scheduledFor is set and not after
\* t, or its text contains '#now'
DueAt(item, t) ==
    \/ (item.scheduledFor # Null /\ item.scheduledFor[1] <= t)
    \/ \E k \in 1..Len(item.text) : item.text[k] = "#now"

\* C13: a pass attempts a pending item if and only if, at the start of the
\* pass, its scheduledFor is non-null and <= now or its text contains '#now';
\* every pending item that is not due is left in pending, all fields unchanged.
C13_DueSelection ==
    [][/\ (pass.pc = "idle" /\ pass'.pc = "loop")
          => /\ \A r \in 1..Len(Persisted.pending) :
                   (\E k \in 1..Len(pass'.due) : pass'.due[k] = r)
                   <=> DueAt(Persisted.pending[r], now)
             /\ pass'.objs = Persisted.pending
       /\ Attempt
          => /\ last'.att.ref \in Range(pass.due)
             /\ DueAt(pass.objs[last'.att.ref], pass.nowIso)
       /\ ProcessEnd
          => \A r \in 1..Len(Persisted.pending) :
                ~DueAt(Persisted.pending[r], pass.nowIso)
                => \E k \in 1..Len(Persisted'.pending) :
                      Persisted'.pending[k] = Persisted.pending[r]]_vars

\* the step concludes an attempt with a result from postToFacebook
Succeeds ==
    /\ pass.pc \in {"loop", "net"}
    /\ pass'.pc = "loop"
    /\ last'.att.outcome \in {"delivered", "dry_run"}

Fails ==
    /\ pass.pc \in {"loop", "net"}
    /\ pass'.pc = "loop"
    /\ last'.att.outcome
         \in {"config_error", "rate_limited", "download_failed", "platform_error"}

\* C15: when the delivery of a due item fails (config error, rate limit,
\* download failure, platform error) the item is marked 'failed' with the
\* error message, stays in pending where it was with scheduledFor unchanged,
\* is not added to posted or postedHashes, and every later pass attempts it
\* again.
C15_FailureKeepsPending ==
    [][/\ Fails
          => LET r == last'.att.ref
             IN  /\ pass'.objs[r].status = "failed"
                 /\ pass'.objs[r].error # Null
                 /\ pass'.objs[r].scheduledFor = pass.objs[r].scheduledFor
                 /\ pass'.objs[r].id = pass.objs[r].id
                 /\ pass'.pending = pass.pending
                 /\ pass'.posted = pass.posted
                 /\ pass'.postedHashes = pass.postedHashes
       /\ ProcessEnd
          => \A r \in Range(pass.due) :
                pass.objs[r].status = "failed"
                => /\ \E k \in 1..Len(Persisted'.pending) :
                         Persisted'.pending[k] = pass.objs[r]
                   /\ \A k \in 1..Len(Persisted'.posted) :
                         Persisted'.posted[k] # pass.objs[r]
       /\ (pass.pc = "idle" /\ pass'.pc = "loop")
          => \A r \in 1..Len(Persisted.pending) :
                Persisted.pending[r].status = "failed"
                => \E k \in 1..Len(pass'.due) : pass'.due[k] = r]_vars

\* the k-th admitted item is due: it carries '#now', or it is pending with
\* its scheduledFor reached
AdmittedDue(k) ==
    /\ k <= Len(admitted)
    /\ \/ \E n \in 1..Len(admitted[k].text) : admitted[k].text[n] = "#now"
       \/ \E j \in 1..Len(Persisted.pending) :
             /\ Persisted.pending[j].id = admitted[k].id
             /\ Persisted.pending[j].contentHash = admitted[k].contentHash
             /\ Persisted.pending[j].scheduledFor # Null
             /\ Persisted.pending[j].scheduledFor[1] <= now

\* the k-th admitted item is in posted (as many times as it was admitted)
AdmittedPosted(k) ==
    /\ k <= Len(admitted)
    /\ Occurrences(Persisted.posted, admitted[k])
         >= Occurrences(admitted, admitted[k])

\* C16: with a valid config, passes recurring forever and a platform that
\* accepts every request, every admitted item that is due is eventually in
\* posted.
C16_AtLeastOnce ==
    \A k \in 1..MaxLiveItems : AdmittedDue(k) ~> AdmittedPosted(k)

\* the content's text is missing, not a string or empty
TextMissing(c) == c.text.t # "string" \/ Len(c.text.v) = 0

\* the content's text is a string of more than 2200 characters
TextTooLong(c) == c.text.t = "string" /\ StrLen(c.text.v) > 2200

\* the content's mediaType is given and is none of text, image, video
MediaTypeUnknown(c) ==
    /\ c.mediaType # Null
    /\ c.mediaType[1] # "text"
    /\ c.mediaType[1] # "image"
    /\ c.mediaType[1] # "video"

\* C17: addToQueue rejects content whose text is missing, empty, not a
\* string or longer than 2200 characters, or whose mediaType is given and is
\* not text, image or video: it returns success = false with the errors and
\* queue.json is untouched.  A text of exactly 2200 characters is admitted.
C17_InvalidInputRejected ==
    [][\A c \in InputContents :
         AddToQueue(c)
         => /\ (TextMissing(c) \/ TextTooLong(c) \/ MediaTypeUnknown(c))
               => /\ last'.ret.success = FALSE
                  /\ last'.ret.errors # <<>>
                  /\ Len(last'.ret.errors)
                       = (IF TextMissing(c) \/ TextTooLong(c) THEN 1 ELSE 0)
                         + (IF MediaTypeUnknown(c) THEN 1 ELSE 0)
                  /\ last'.ret.item = Null
                  /\ store' = store
                  /\ admitted' = admitted
            /\ (/\ c.text.t = "string"
                /\ StrLen(c.text.v) = 2200
                /\ ~MediaTypeUnknown(c)
                /\ ~isDuplicateContent(Persisted,
                                       generateContentHash(c.text.v, c.mediaType)))
               => /\ last'.ret.success = TRUE
                  /\ Len(Persisted'.pending) = Len(Persisted.pending) + 1
                  /\ Persisted'.pending[Len(Persisted'.pending)].text = c.text.v]_vars

\* a text of 2201 characters was just rejected; one of 2200 is in the queue
C17_Witness ==
    /\ last.op = "addToQueue"
    /\ ~last.ret.success
    /\ last.ret.errors = <<"Text exceeds Facebook limit of 2200 characters">>
    /\ \E k \in 1..Len(Persisted.pending) :
          StrLen(Persisted.pending[k].text) = 2200

\* C18: no failure of an attempt aborts the pass: whatever the outcomes,
\* every due item selected at the start is attempted exactly once, in
\* selection order, and the pass ends by saving the queue.
C18_PassCompletes ==
    [][/\ (pass.pc # "idle" /\ pass'.pc # "idle")
          => /\ pass'.due = pass.due
             /\ pass'.nowIso = pass.nowIso
       /\ (Succeeds \/ Fails)
          => /\ pass.i <= Len(pass.due)
             /\ last'.att.ref = pass.due[pass.i]
             /\ pass.done = SubSeq(pass.due, 1, pass.i - 1)
             /\ pass'.done = SubSeq(pass.due, 1, pass.i)
             /\ pass'.pc = "loop"
       /\ (pass.pc # "idle" /\ pass'.pc = "idle")
          => /\ pass.done = pass.due
             /\ store'.exists
             /\ store'.doc.posted = pass.posted
             /\ store'.doc.postedHashes = pass.postedHashes
             /\ store'.doc.pending
                  = [k \in 1..Len(pass.pending) |-> pass.objs[pass.pending[k]]]]_vars

\* a pass whose first attempt failed at the platform and whose second
\* attempt delivered, about to save
C18_Witness ==
    /\ pass.pc = "loop"
    /\ pass.due = <<1, 2>>
    /\ pass.done = <<1, 2>>
    /\ pass.objs[1].status = "failed"
    /\ pass.objs[1].error = Some("Platform error")
    /\ pass.objs[2].status = "posted"
    /\ pass.pending = <<1>>

\* C19: a pass writes queue.json once, after its last due item was
\* attempted; from its load to that save queue.json is unchanged, so when the
\* process dies in mid-pass the items it delivered are still pending in
\* queue.json, still due, and the next pass selects them again.
C19_SingleSaveAtEnd ==
    [][/\ (pass.pc # "idle" /\ store' # store)
          => /\ pass'.pc = "idle"
             /\ pass.i = Len(pass.due) + 1
             /\ last'.op # "crash"
             /\ store' = saveQueue(PassQueue(pass, store))
       /\ (pass.pc = "idle" /\ pass'.pc # "idle")
          => /\ store' = store
             /\ \A r \in 1..Len(Persisted.pending) :
                   DueAt(Persisted.pending[r], now)
                   => \E k \in 1..Len(pass'.due) : pass'.due[k] = r
       /\ last'.op = "crash"
          => /\ store' = store
             /\ pass'.pc = "idle"
             /\ \A k \in 1..Len(pass.done) :
                   LET r == pass.done[k]
                   IN  /\ Persisted'.pending[r].id = pass.objs[r].id
                       /\ Persisted'.pending[r].contentHash = pass.objs[r].contentHash
                       /\ Persisted'.pending[r].status # "posted"
                       /\ DueAt(Persisted'.pending[r], now')
                       /\ \A j \in 1..Len(Persisted'.posted) :
                             Persisted'.posted[j] # pass.objs[r]]_vars

\* one admitted item, delivered to the platform twice: the pass that
\* delivered it first died before its save
C19_Witness ==
    /\ Idle
    /\ Len(admitted) = 1
    /\ Len(delivered) = 2
    /\ delivered[1] = delivered[2]
    /\ Len(Persisted.posted) = 1
    /\ Persisted.posted[1].facebookPostId = Some(<<"fb-", "2">>)

\* the items x and y are the same admitted item
SameItem(x, y) ==
    /\ x.id = y.id
    /\ x.contentHash = y.contentHash
    /\ x.addedAt = y.addedAt

\* C20: queue.json is read, modified and written back with no lock and no
\* version check.  When a pass saves, what an addToQueue in another process
\* saved since the pass loaded is gone: an item admitted since then is in
\* neither list.  When addToQueue or its schedulePosts saves, what a pass
\* saved since they loaded is gone: posted and postedHashes are as loaded,
\* and the items the pass had moved are pending again.  Neither reports an
\* error.
C20_LastWriterWins ==
    [][/\ ProcessEnd
          => /\ \A k \in 1..Len(admitted) :
                   (/\ \A r \in 1..Len(pass.objs) :
                         ~SameItem(pass.objs[r], admitted[k])
                    /\ \A j \in 1..Len(pass.posted) :
                         ~SameItem(pass.posted[j], admitted[k]))
                   => /\ \A j \in 1..Len(Persisted'.pending) :
                            ~SameItem(Persisted'.pending[j], admitted[k])
                      /\ \A j \in 1..Len(Persisted'.posted) :
                            ~SameItem(Persisted'.posted[j], admitted[k])
             /\ last' = NoObs
       /\ IngestSave
          => /\ Persisted'.posted = ingest.loaded.posted
             /\ Persisted'.postedHashes = ingest.loaded.postedHashes
             /\ Persisted'.pending = Append(ingest.loaded.pending, ingest.item[1])
       /\ IngestScheduleSave
          => /\ Persisted'.posted = ingest.loaded.posted
             /\ Persisted'.postedHashes = ingest.loaded.postedHashes
             /\ Len(Persisted'.pending) = Len(ingest.loaded.pending)
             /\ \A j \in 1..Len(ingest.loaded.pending) :
                   SameItem(Persisted'.pending[j], ingest.loaded.pending[j])
             /\ last'.ret.success = TRUE
             /\ last'.ret.errors = <<>>]_vars

\* addToQueue has returned success for a second item; the first was
\* delivered by a pass that saved in between, and is pending again with
\* posted and postedHashes empty
C20_Witness ==
    /\ Idle
    /\ ingest.pc = "idle"
    /\ last.op = "addToQueue"
    /\ last.ret.success
    /\ Len(admitted) = 2
    /\ Len(delivered) = 1
    /\ delivered[1] = admitted[1].contentHash
    /\ Persisted.posted = <<>>
    /\ Persisted.postedHashes = <<>>
    /\ Len(Persisted.pending) = 2
    /\ SameItem(Persisted.pending[1], admitted[1])
    /\ SameItem(Persisted.pending[2], admitted[2])
    /\ admitted[1].id # admitted[2].id

\* C21: loadQueue performed immediately after saveQueue(q) returns a queue
\* equal to q field for field: pending, posted, postedHashes, lastPostTime
\* and every field of every item; a null mediaUrl, telegramFileId or
\* scheduledFor is in the file as null, and is null again when loaded.
C21_RoundTrip ==
    [][(last.op = "saveQueue" /\ last'.op = "loadQueue")
         => LET q == last.ret.value[1]
                loaded == last'.ret.value[1]
                written == store.doc.v.pending.v \o store.doc.v.posted.v
                items == q.pending \o q.posted
            IN  /\ loaded.pending = q.pending
                /\ loaded.posted = q.posted
                /\ loaded.postedHashes = q.postedHashes
                /\ loaded.lastPostTime = q.lastPostTime
                /\ loaded = q
                /\ Len(written) = Len(items)
                /\ \A i \in 1..Len(items) :
                      \A k \in NullableKeys :
                         items[i][k] = Null
                         => /\ k \in DOMAIN written[i].v
                            /\ written[i].v[k] = JNull
                            /\ (loaded.pending \o loaded.posted)[i][k] = Null]_vars

\* a queue with an unscheduled item in pending and a posted item, its hash
\* recorded, was saved and loaded
C21_Witness ==
    /\ last.op = "loadQueue"
    /\ store.exists
    /\ Len(last.ret.value[1].pending) = 1
    /\ last.ret.value[1].pending[1].scheduledFor = Null
    /\ last.ret.value[1].pending[1].mediaUrl = Null
    /\ Len(last.ret.value[1].posted) = 1
    /\ last.ret.value[1].posted[1].facebookPostId # Null
    /\ Len(last.ret.value[1].postedHashes) = 1
    /\ last.ret.value[1].lastPostTime # Null

\* queue.json is missing, or reading or parsing it throws: loadQueue
\* returns the empty queue
C22_Fallback == ~Readable(store) => Persisted = EmptyQueue

\* addToQueue succeeds over a queue.json that cannot be read or parsed:
\* afterwards the file is a queue document that holds the new item, with its
\* slot, and nothing else
C22_Overwrite ==
    \A c \in Contents :
       (AddToQueue(c) /\ store.exists /\ ~Readable(store) /\ last'.ret.success)
       => LET item == last'.ret.item[1]
          IN  /\ Readable(store')
              /\ Persisted'.pending
                   = << [item EXCEPT !.scheduledFor =
                           Some(getNextScheduleTime(config, now, localOffset))] >>
              /\ Persisted'.posted = <<>>
              /\ Persisted'.postedHashes = <<>>
              /\ Persisted'.lastPostTime = Null

\* C22: loadQueue never raises: when queue.json does not exist, or cannot be
\* read or parsed, it returns the empty queue; the next successful addToQueue
\* then overwrites the unreadable store with a queue holding only the new
\* item.
C22_UnreadableStore == []C22_Fallback /\ [][C22_Overwrite]_vars

\* the first addToQueue of the behaviour succeeded, and queue.json, which
\* could not be read or parsed before, holds the one item
C22_Witness ==
    /\ last.op = "addToQueue"
    /\ last.ret.success
    /\ Len(admitted) = 1
    /\ Readable(store)
    /\ Len(Persisted.pending) = 1
    /\ Persisted.pending[1].id = admitted[1].id
    /\ Persisted.posted = <<>>

\* the upload_phase of each request of a sequence
Phases(requests) == [i \in 1..Len(requests) |-> requests[i].upload_phase]

\* C23: a video publish sends start, transfer, finish in this order;
\* transfer is sent only after start returned without an error, and carries
\* the session id start returned, start offset 0 and the whole file; finish
\* is sent only after transfer returned without an error, and carries the
\* same session id and the item text; an error in a phase ends the attempt
\* with no later phase sent and leaves the item in pending.
C23_VideoPhases ==
    [][(/\ pass.pc = "net"
        /\ pass'.pc = "loop"
        /\ pass.objs[pass.att.ref].mediaType = "video"
        /\ MediaExists(pass.objs[pass.att.ref], pass.cfg[1])
        /\ last'.att.outcome # "download_failed")
         => LET item == pass.objs[pass.att.ref]
                att == last'.att
                reqs == att.requests
                n == Len(reqs)
                failed == att.outcome = "platform_error"
            IN  /\ n \in 1..3
                /\ \A i \in 1..n : reqs[i].endpoint = "videos"
                /\ Phases(reqs)
                     = SubSeq(<<Some("start"), Some("transfer"), Some("finish")>>, 1, n)
                \* a request was sent only after those before it returned
                \* without an error: the one that failed is the last
                /\ att.outcome \in {"delivered", "platform_error"}
                /\ att.outcome = "delivered" => n = 3
                /\ n >= 2 => /\ att.session # Null
                             /\ reqs[2].upload_session_id = att.session
                             /\ reqs[2].start_offset = Some("0")
                             /\ reqs[2].file = MediaPath(item, pass.cfg[1])
                /\ n = 3 => /\ reqs[3].upload_session_id = att.session
                            /\ reqs[3].text = Some(item.text)
                /\ failed
                     => /\ pass'.objs[pass.att.ref].status = "failed"
                        /\ pass'.pending = pass.pending
                        /\ pass'.posted = pass.posted
                        /\ pass'.postedHashes = pass.postedHashes
                        /\ delivered' = delivered
                        /\ rateLimiter' = rateLimiter
                        /\ store' = store
                /\ (failed /\ n = 1) => att.session = Null]_vars

\* a video was published: the three requests were sent, transfer and finish
\* with the session id start returned, and the item is posted
C23_Witness ==
    /\ last.op = "netDone"
    /\ last.att.outcome = "delivered"
    /\ Phases(last.att.requests)
         = <<Some("start"), Some("transfer"), Some("finish")>>
    /\ last.att.session = Some("session-2")
    /\ last.att.requests[3].upload_session_id = Some("session-2")
    /\ pass.posted # <<>>
    /\ pass.posted[Len(pass.posted)].mediaType = "video"

\* the Facebook page id or access token of cfg is missing or contains the
\* placeholder 'YOUR_'
InvalidCredentials(cfg) ==
    \/ cfg.page_id = Null
    \/ cfg.page_id[1] = <<>>
    \/ \E k \in 1..Len(cfg.page_id[1]) : cfg.page_id[1][k] = "YOUR_"
    \/ cfg.access_token = Null
    \/ cfg.access_token[1] = <<>>
    \/ \E k \in 1..Len(cfg.access_token[1]) : cfg.access_token[1][k] = "YOUR_"

\* C24: with dry-run off and an invalid config a delivery attempt ends in a
\* config error before the rate-limit gate, before any download and before
\* any request to the platform; the rate-limiter clock is unchanged and the
\* item stays in pending, in the pass's memory and in what the pass saves.
C24_ConfigErrorFirst ==
    [][/\ (Attempt /\ ~pass.cfg[1].dry_run /\ InvalidCredentials(pass.cfg[1]))
          => LET r == pass.due[pass.i]
             IN  /\ last'.att.outcome = "config_error"
                 /\ last'.att.calls = <<>>
                 /\ last'.att.requests = <<>>
                 /\ last'.att.created = Null
                 /\ pass'.pc = "loop"
                 /\ pass'.objs[r].status = "failed"
                 /\ pass'.objs[r].error = Some("Config error")
                 /\ rateLimiter' = rateLimiter
                 /\ delivered' = delivered
                 /\ temp' = temp
                 /\ pass'.pending = pass.pending
                 /\ r \in Range(pass'.pending)
                 /\ pass'.posted = pass.posted
                 /\ pass'.postedHashes = pass.postedHashes
       /\ (ProcessEnd /\ ~pass.cfg[1].dry_run /\ InvalidCredentials(pass.cfg[1]))
          => /\ Len(Persisted'.pending) = Len(Persisted.pending)
             /\ \A k \in 1..Len(Persisted.pending) :
                   /\ Persisted'.pending[k].id = Persisted.pending[k].id
                   /\ Persisted'.pending[k].contentHash
                        = Persisted.pending[k].contentHash
             /\ Persisted'.posted = Persisted.posted
             /\ Persisted'.postedHashes = Persisted.postedHashes]_vars

\* a pass over a due item ended with the access token left at a placeholder:
\* the item is in queue.json's pending, marked failed with the config error,
\* and nothing was delivered
C24_Witness ==
    /\ Idle
    /\ ~config.dry_run
    /\ config.page_id = Some(<<"1234">>)
    /\ config.access_token = Some(<<"x", "YOUR_">>)
    /\ Len(Persisted.pending) = 1
    /\ Persisted.pending[1].status = "failed"
    /\ Persisted.pending[1].error = Some("Config error")
    /\ Persisted.posted = <<>>
    /\ delivered = <<>>
    /\ rateLimiter = 0
    /\ temp = {}

\* C25: the publish operation of an attempt is fixed by the item's
\* mediaType: a text item goes to the feed endpoint; an image item goes to
\* the photos endpoint, multipart when its media is a local file and by URL
\* when it is a remote reference, and ends in an error without a request
\* when it has no media; a video item is published only through the three
\* phases of the videos endpoint.  No image or video item is ever published
\* as a feed post.
C25_PublishByMediaType ==
    (last.op = "netDone" /\ last.att.outcome # "download_failed")
    => LET item == pass.objs[last.att.ref]
           cfg == pass.cfg[1]
           reqs == last.att.requests
       IN  /\ item.mediaType = "text"
                => \A i \in 1..Len(reqs) : reqs[i].endpoint = "feed"
           /\ (item.mediaType = "image" /\ MediaExists(item, cfg))
                => /\ Len(reqs) = 1
                   /\ reqs[1].endpoint = "photos"
                   /\ reqs[1].file = MediaPath(item, cfg)
           /\ (item.mediaType = "image" /\ ~MediaExists(item, cfg)
                 /\ MediaPath(item, cfg) # Null)
                => /\ Len(reqs) = 1
                   /\ reqs[1].endpoint = "photos"
                   /\ reqs[1].url = MediaPath(item, cfg)
           /\ (item.mediaType = "image" /\ MediaPath(item, cfg) = Null)
                => /\ reqs = <<>>
                   /\ last.att.outcome # "delivered"
           /\ item.mediaType = "video"
                => \A i \in 1..Len(reqs) : reqs[i].endpoint = "videos"
           /\ item.mediaType \in {"image", "video"}
                => \A i \in 1..Len(reqs) : reqs[i].endpoint # "feed"

SkipSpellings == {"#skip", "#SKIP", "#Draft", "#draft", "#ignore", "#IGNORE"}

\* the message's text or caption contains a skip word
HasSkipWord(message) ==
    \/ message.text # Null /\ Range(message.text[1]) \cap SkipSpellings # {}
    \/ message.caption # Null /\ Range(message.caption[1]) \cap SkipSpellings # {}

ItemsWithSkipWord(items) ==
    {i \in 1..Len(items) : Range(items[i].text) \cap SkipSpellings # {}}

\* C27: a message whose text or caption contains '#skip', '#draft' or
\* '#ignore', in any case, is not admitted by processTelegramWebhook nor by
\* processTelegramMessage: the adapter returns without calling addToQueue and
\* leaves the queue as it was; so no item with such a text is ever in
\* pending or posted, and none is delivered.
C27_SkipPatterns ==
    /\ [](/\ ItemsWithSkipWord(admitted) = {}
          /\ ItemsWithSkipWord(Persisted.pending) = {}
          /\ ItemsWithSkipWord(Persisted.posted) = {}
          /\ \A i \in 1..Len(delivered) :
                Range(delivered[i].sha256_16) \cap SkipSpellings = {})
    /\ [][/\ \A update \in TelegramUpdates, exported \in BOOLEAN :
               (/\ update.message # Null
                /\ HasSkipWord(update.message[1])
                /\ ProcessTelegramWebhook(update, exported))
               => /\ last'.op = "processTelegramWebhook"
                  /\ last'.ret.reason \in {"skipped", "not_allowed"}
                  /\ UNCHANGED <<store, admitted>>
          /\ \A message \in TelegramMessages, exported \in BOOLEAN :
               (HasSkipWord(message) /\ ProcessTelegramMessage(message, exported))
               => /\ last'.op = "processTelegramMessage"
                  /\ last'.ret.reason = "skipped"
                  /\ UNCHANGED <<store, admitted>>]_vars

\* an adapter has just skipped a message, and the queue is still empty
C27_Witness ==
    /\ last.op \in {"processTelegramWebhook", "processTelegramMessage"}
    /\ last.ret.reason = "skipped"
    /\ admitted = <<>>
    /\ Persisted = EmptyQueue

\* the positions of pending that are among the first n without a slot
FirstUnscheduled(pending, n) ==
    {i \in 1..Len(pending) :
        /\ pending[i].scheduledFor = Null
        /\ Cardinality({j \in 1..(i - 1) : pending[j].scheduledFor = Null}) < n}

\* N: posts_per_day, 2 when it is not set
PostsPerDayOf(cfg) == IF cfg.posts_per_day = Null THEN 2 ELSE cfg.posts_per_day[1]

\* C28: schedulePosts gives a scheduledFor to the first N pending items
\* that have none, in arrival order (N = posts_per_day, 2 when unset), and to
\* no other item; it overwrites no scheduledFor and leaves the order of
\* pending, every other field of every item, posted, postedHashes and
\* lastPostTime as they were.
C28_FirstNUnscheduled ==
    [][SchedulePosts =>
         LET before == loadQueue(store)
             after == loadQueue(store')
             chosen == FirstUnscheduled(before.pending, PostsPerDayOf(config))
         IN  /\ Len(after.pending) = Len(before.pending)
             /\ \A i \in 1..Len(before.pending) :
                  IF i \in chosen
                  THEN /\ after.pending[i].scheduledFor # Null
                       /\ [after.pending[i] EXCEPT !.scheduledFor = Null]
                            = before.pending[i]
                  ELSE after.pending[i] = before.pending[i]
             /\ after.posted = before.posted
             /\ after.postedHashes = before.postedHashes
             /\ after.lastPostTime = before.lastPostTime]_vars

\* schedulePosts has run on a queue of three pending items of which the
\* second had a slot, with posts_per_day 1: the first item has a slot now,
\* the second has kept its own, the third is still without one
C28_Witness ==
    /\ config.posts_per_day = Some(1)
    /\ Len(Persisted.pending) = 3
    /\ Persisted.pending[1].scheduledFor \notin BacklogSlots
    /\ Persisted.pending[2].scheduledFor = Some(T0 - DayMs + MinuteMs)
    /\ Persisted.pending[3].scheduledFor = Null

\* C29: the items that get a slot in one schedulePosts call all get the
\* same scheduledFor.
C29_SameSlot ==
    [][SchedulePosts =>
         LET before == loadQueue(store)
             after == loadQueue(store')
             given == {i \in 1..Len(before.pending) :
                         /\ before.pending[i].scheduledFor = Null
                         /\ after.pending[i].scheduledFor # Null}
         IN  \A i, j \in given :
                after.pending[i].scheduledFor = after.pending[j].scheduledFor]_vars

\* three items that had no slot have the same one, with posts_per_day 3
C29_Witness ==
    /\ config.posts_per_day = Some(3)
    /\ Len(Persisted.pending) = 3
    /\ Persisted.pending[1].scheduledFor \notin BacklogSlots
    /\ Persisted.pending[2].scheduledFor = Persisted.pending[1].scheduledFor
    /\ Persisted.pending[3].scheduledFor = Persisted.pending[1].scheduledFor

\* C30: the scheduledFor computed for a slot HH:MM is the instant at which
\* the wall clock of the configured zone reads HH:MM, today or tomorrow,
\* whatever the zone of the process is.
C30_SlotInConfiguredZone ==
    last.op = "getNextScheduleTime"
    => LET scheduled == last.ret.value[1]
           \* what the configured zone's wall clock reads at scheduled and now
           wall == scheduled + config.tzOffset
           wallNow == now + config.tzOffset
           today == (wallNow \div DayMs) * DayMs
       IN  \E k \in 1..Len(config.post_times) :
              wall \in {today + SlotMinutes(config.post_times[k]) * MinuteMs,
                        today + DayMs + SlotMinutes(config.post_times[k]) * MinuteMs}

\* what tells one admitted item from another, whatever was written to its
\* scheduledFor, status and error since
ArrivalKey(item) ==
    [id |-> item.id, contentHash |-> item.contentHash, addedAt |-> item.addedAt]

ArrivalKeys(items) == [k \in 1..Len(items) |-> ArrivalKey(items[k])]

\* sub is what is left of full when some of its elements are taken out
RECURSIVE IsSubsequence(_, _)
IsSubsequence(sub, full) ==
    IF sub = <<>> THEN TRUE
    ELSE IF full = <<>> THEN FALSE
    ELSE IF Head(sub) = Head(full)
    THEN IsSubsequence(Tail(sub), Tail(full)) \/ IsSubsequence(sub, Tail(full))
    ELSE IsSubsequence(sub, Tail(full))

IsPrefix(pre, full) ==
    Len(pre) <= Len(full) /\ SubSeq(full, 1, Len(pre)) = pre

\* C31: the items in pending are in the order in which they were admitted,
\* and every step leaves the posted sequence it found as a prefix of the new
\* one.
C31_ArrivalOrder ==
    /\ [](IsSubsequence(ArrivalKeys(Persisted.pending), ArrivalKeys(admitted)))
    /\ [][IsPrefix(loadQueue(store).posted, loadQueue(store').posted)]_vars

\* three items were admitted and a pass has posted the second of them: the
\* first and the third are in pending, in that order
C31_Witness ==
    /\ Idle
    /\ Len(admitted) = 3
    /\ Len(Persisted.posted) = 1
    /\ ArrivalKey(Persisted.posted[1]) = ArrivalKey(admitted[2])
    /\ ArrivalKeys(Persisted.pending)
         = <<ArrivalKey(admitted[1]), ArrivalKey(admitted[3])>>
    /\ ArrivalKey(admitted[1]) # ArrivalKey(admitted[3])

\* C32: the rate-limiter clock is written only at the end of a delivery
\* that succeeded with dry-run off, where it becomes the clock reading; an
\* attempt that ends in a config error, a rate-limit rejection, a failed
\* Telegram download or a platform error, and a dry-run delivery, leave it as
\* it was.  (A new process starts with a clock of its own, at 0.)
C32_ClockOnlyOnSuccess ==
    [][/\ (last'.op \in {"attempt", "netDone"} /\ last'.att.outcome # "delivered")
            => rateLimiter' = rateLimiter
       /\ (last'.op = "netDone" /\ last'.att.outcome = "delivered")
            => rateLimiter' = now /\ ~config.dry_run
       /\ rateLimiter' # rateLimiter
            => \/ last'.op = "netDone" /\ last'.att.outcome = "delivered"
               \/ ProcessStart(TRUE)]_vars

\* a request to the platform has just failed in a process that delivered
\* earlier: the clock is still the time of that delivery
C32_Witness ==
    /\ last.op = "netDone"
    /\ last.att.outcome = "platform_error"
    /\ Len(delivered) = 1
    /\ rateLimiter # 0
    /\ rateLimiter < now

\* C33: a write of queue.json that fails is not swallowed: addToQueue
\* throws and does not return success = true, whichever of its two saves
\* failed, and a pass whose final save fails ends with its promise rejected.
C33_WriteFailurePropagates ==
    [][/\ \A c \in Contents, failAtSave \in {1, 2} :
            AddToQueueWriteFails(c, failAtSave)
            => /\ last'.op = "addToQueue"
               /\ last'.ret.reason = "thrown"
               /\ ~last'.ret.success
       /\ ProcessEndWriteFails
            => /\ last'.op = "processScheduledPosts"
               /\ last'.ret.reason = "rejected"]_vars

\* the final save of a pass that delivered an item has failed: the pass is
\* rejected and queue.json does not show the item as posted
C33_Witness ==
    /\ last.op = "processScheduledPosts"
    /\ last.ret.reason = "rejected"
    /\ Len(delivered) = 1
    /\ Persisted.posted = <<>>

\* C34: starting from an empty queue, in every state, and so after every
\* addToQueue call that succeeded, every item of the pending list in
\* queue.json has a scheduledFor: the scheduling step of each ingestion
\* gives a slot to the item just added, whatever posts_per_day is.
C34_NoBacklog ==
    /\ \A i \in 1..Len(Persisted.pending) : Persisted.pending[i].scheduledFor # Null
    /\ (last.op = "addToQueue" /\ last.ret.success)
         => /\ Persisted.pending # <<>>
            /\ Persisted.pending[Len(Persisted.pending)] =
                 [last.ret.item[1] EXCEPT
                    !.scheduledFor = Persisted.pending[Len(Persisted.pending)].scheduledFor]

\* the second addToQueue call in a row has succeeded with posts_per_day 1,
\* and the two pending items have a slot
C34_Witness ==
    /\ last.op = "addToQueue"
    /\ last.ret.success
    /\ config.posts_per_day = Some(1)
    /\ Len(Persisted.pending) = 2
    /\ \A i \in 1..2 : Persisted.pending[i].scheduledFor # Null

\* C35: in queue.json every item of posted has status 'posted', a postedAt
\* and a facebookPostId, and every item of pending has status 'pending' or
\* 'failed', with an error when the status is 'failed'.
C35_StatusFields ==
    /\ \A i \in 1..Len(Persisted.posted) :
          /\ Persisted.posted[i].status = "posted"
          /\ Persisted.posted[i].postedAt # Null
          /\ Persisted.posted[i].facebookPostId # Null
    /\ \A i \in 1..Len(Persisted.pending) :
          /\ Persisted.pending[i].status \in {"pending", "failed"}
          /\ Persisted.pending[i].status = "failed"
               => Persisted.pending[i].error # Null

\* C36: a dry-run delivery sends nothing and records the item's content
\* hash in postedHashes as a delivery does; an addToQueue call whose content
\* has a hash in the postedHashes of queue.json is rejected as a duplicate,
\* with dry-run on or off, whether or not the content was ever sent.
C36_DryRunRecordsHash ==
    [][/\ (last'.op = "attempt" /\ last'.att.outcome = "dry_run")
            => /\ Includes(pass'.postedHashes, last'.att.hash[1])
               /\ pass'.postedHashes = RecordHash(pass.postedHashes, last'.att.hash[1])
               /\ last'.att.calls = <<>>
               /\ last'.att.requests = <<>>
               /\ delivered' = delivered
       /\ ProcessEnd => loadQueue(store').postedHashes = pass.postedHashes
       /\ \A c \in Contents :
            (/\ AddToQueue(c)
             /\ validateInput(c) = <<>>
             /\ Includes(loadQueue(store).postedHashes,
                         generateContentHash(c.text.v, c.mediaType)))
            => /\ last'.ret.reason = "duplicate"
               /\ ~last'.ret.success
               /\ store' = store]_vars

\* with dry-run off, addToQueue has just rejected as a duplicate a content
\* that a dry-run pass marked posted and that was never sent
C36_Witness ==
    /\ last.op = "addToQueue"
    /\ last.ret.reason = "duplicate"
    /\ ~config.dry_run
    /\ delivered = <<>>
    /\ Len(Persisted.posted) = 1
    /\ Persisted.postedHashes = <<Persisted.posted[1].contentHash>>

\* the pass p has delivered one of its due items
DeliveredInPass(p) ==
    \E k \in 1..Len(p.done) : p.objs[p.done[k]].status = "posted"

\* C37: with dry-run off, once a pass has delivered an item, every due item
\* it attempts less than 60 s after that delivery is rejected by the
\* rate-limit gate, marked 'failed' and left in pending, so that the pass
\* delivers no second item in that time.
C37_OnePerPass ==
    [][/\ (/\ Attempt
           /\ ~pass.cfg[1].dry_run
           /\ DeliveredInPass(pass)
           /\ now - rateLimiter < MinInterval)
          => LET r == pass.due[pass.i]
             IN  /\ last'.att.outcome = "rate_limited"
                 /\ pass'.objs[r].status = "failed"
                 /\ pass'.objs[r].error # Null
                 /\ \E k \in 1..Len(pass'.pending) : pass'.pending[k] = r
       /\ (/\ last'.op = "netDone"
           /\ last'.att.outcome = "delivered"
           /\ DeliveredInPass(pass))
          => last'.att.gateAt - rateLimiter >= MinInterval]_vars

\* C38: the slot getNextScheduleTime returns lies strictly after the clock
\* reading it was computed at, so that an item that has just got it is not
\* due by time, whatever the zone of the process and the configured zone are.
C38_SlotAfterNow ==
    last.op = "getNextScheduleTime"
    => /\ last.ret.value[1] > now
       /\ ~IsDue([text |-> <<"hello">>, scheduledFor |-> last.ret.value], now)

\* the number of deliveries to the platform that carried the hash h
DeliveriesOf(h) == Cardinality({i \in 1..Len(delivered) : delivered[i] = h})

\* C39: no admitted item is delivered to the platform more than once, also
\* when passes of two processes overlap: a content hash is delivered at most
\* as many times as items with it were admitted.
C39_DeliveredOnce ==
    \A k \in 1..Len(admitted) :
       DeliveriesOf(admitted[k].contentHash)
         <= Cardinality({j \in 1..Len(admitted) :
                           admitted[j].contentHash = admitted[k].contentHash})

====
